---- MODULE Spec2Model ----
(***************************************************************************)
(* Model of datafusion/common/src/tree_node.rs: the TreeNode traversal     *)
(* API (visit, apply, rewrite, transform_down, transform_up,               *)
(* transform_down_up), the Transformed envelope, the sibling aggregator    *)
(* map_until_stop_and_collect and the node contracts.                      *)
(*                                                                         *)
(* Every Rust function is an operator of the same name.  A Rust closure    *)
(* is a value (its kind and what it captures) that call applies; a method  *)
(* or closure takes the log of the side effects so far and returns a       *)
(* Result carrying the new log, because the closures are FnMut and the     *)
(* tests observe them through the list of visits they push.                *)
(***************************************************************************)
EXTENDS Integers, Sequences, FiniteSets, TLC

\* ------------------------------------------------------------------------
\* Bounds of the model
\* ------------------------------------------------------------------------
MaxNodes == 3
MaxEvents == 2
MaxTestEvents == 1

\* ------------------------------------------------------------------------
\* TreeNodeRecursion, Transformed<T>, Result<T>
\* ------------------------------------------------------------------------
Continue == "Continue"
Jump == "Jump"
Stop == "Stop"
TreeNodeRecursion == {Continue, Jump, Stop}

\* The log threaded through the closures: the callbacks invoked so far, each
\* with what it reported, and the reconstruction calls made so far.
EmptyLog == [visits |-> <<>>, rebuilds |-> <<>>]

\* Ok(TreeNodeRecursion) of Result<TreeNodeRecursion>
OkTnr(tnr, log) == [ok |-> TRUE, tnr |-> tnr, log |-> log]

\* Transformed::new(data, transformed, tnr), wrapped in Ok
Transformed_new(data, transformed, tnr, log) ==
    [ok |-> TRUE, data |-> data, transformed |-> transformed, tnr |-> tnr, log |-> log]

\* Transformed::no(data), wrapped in Ok
Transformed_no(data, log) == Transformed_new(data, FALSE, Continue, log)

\* Transformed::yes(data), wrapped in Ok
Transformed_yes(data, log) == Transformed_new(data, TRUE, Continue, log)

\* Err(e): the `?` operator and Result::map return it as it is
Err(e, log) == [ok |-> FALSE, err |-> e, log |-> log]

\* ------------------------------------------------------------------------
\* Trees: TestTreeNode { children, data }.  The data of a node is its name
\* and the transformations applied to it, outermost first, as the tests
\* build "f_up(f_down(a))".
\* ------------------------------------------------------------------------
\* A node also carries the Rust type it is a value of, which selects the
\* TreeNode implementation, and whether its reconstruction operation fails.
TestTreeNode == "TestTreeNode"
ConcreteTreeNode == "ConcreteTreeNode"
ArcDynTreeNode == "Arc<DynTreeNode>"
NodeTypes == {TestTreeNode, ConcreteTreeNode, ArcDynTreeNode}

Node(ty, children, data, frail) ==
    [ty |-> ty, children |-> children, data |-> data, frail |-> frail]

TestTreeNode_new(children, data) == Node(TestTreeNode, children, data, FALSE)

Data(name) == [name |-> name, wraps |-> <<>>]

\* Mutant: the new name goes inside the old ones
Wrap_inside(transformation_name, data) ==
    [name |-> data.name, wraps |-> data.wraps \o <<transformation_name>>]

\* format!("{}({})", transformation_name, node.data)
Wrap(transformation_name, data) ==
    [name |-> data.name, wraps |-> <<transformation_name>> \o data.wraps]

\* ------------------------------------------------------------------------
\* Client callbacks.  What a callback does at a node is an input: cb.f_down
\* and cb.f_up give, for the name of each node, the TreeNodeRecursion it
\* reports, whether it changes the node, and whether it fails instead.
\* Every invocation is pushed on the log, as TestVisitor pushes its visits.
\* ------------------------------------------------------------------------
Resp(tnr, changed, fail) == [tnr |-> tnr, changed |-> changed, fail |-> fail]

\* The error value a failing callback or reconstruction returns: each has
\* its own, so that two failures are told apart.
ErrOf(by, name) == [by |-> by, at |-> name]

Visited(log, f, node, r) ==
    [log EXCEPT !.visits = Append(@, [f |-> f, node |-> node.data.name,
                                      tnr |-> r.tnr, changed |-> r.changed,
                                      fail |-> r.fail])]

\* TestVisitor::f_down / f_up: push the visit, then report what the boxed
\* closure reports (visit_continue, visit_event_on, or an Err).
TestVisitor_f(cb, f, node, log) ==
    LET r == cb[f][node.data.name]
        pushed == Visited(log, f, node, r)
    IN  IF r.fail THEN Err(ErrOf(f, node.data.name), pushed)
        ELSE OkTnr(r.tnr, pushed)

\* TestRewriter::f_down / f_up and the closures given to transform_*:
\* transform_yes and transform_and_event_on rename the node and report
\* transformed = true; the default TreeNodeRewriter methods return the node
\* as it is with transformed = false (Transformed::no).
TestRewriter_f(cb, f, node, log) ==
    LET r == cb[f][node.data.name]
        pushed == Visited(log, f, node, r)
        new_node == [node EXCEPT !.data = Wrap(f, node.data)]
    IN  IF r.fail THEN Err(ErrOf(f, node.data.name), pushed)
        ELSE IF r.changed THEN Transformed_new(new_node, TRUE, r.tnr, pushed)
        ELSE Transformed_new(node, FALSE, r.tnr, pushed)

\* ------------------------------------------------------------------------
\* handle_visit_recursion!($EXPR, $DIRECTION): what the macro makes the
\* enclosing function do.  [ret |-> TRUE, tnr |-> t] is `return Ok(t)`;
\* ret = FALSE is falling through to the statement after the macro.
\* ------------------------------------------------------------------------
\* (mutant: in the UP direction the function returns Continue)
handle_jump_up_continues(direction) ==
    CASE direction = "UP" -> [ret |-> TRUE, tnr |-> Continue]
      [] direction = "DOWN" -> [ret |-> TRUE, tnr |-> Continue]
      [] OTHER -> [ret |-> FALSE, tnr |-> Jump]

\* (mutant: in the DOWN direction the function returns Stop)
handle_jump_down_stops(direction) ==
    CASE direction = "UP" -> [ret |-> TRUE, tnr |-> Jump]
      [] direction = "DOWN" -> [ret |-> TRUE, tnr |-> Stop]
      [] OTHER -> [ret |-> FALSE, tnr |-> Jump]

\* (mutant: in the DOWN direction the function returns Jump)
handle_jump_down_returns_jump(direction) ==
    CASE direction = "UP" -> [ret |-> TRUE, tnr |-> Jump]
      [] direction = "DOWN" -> [ret |-> TRUE, tnr |-> Jump]
      [] OTHER -> [ret |-> FALSE, tnr |-> Jump]

handle_jump(direction) ==
    CASE direction = "UP" -> [ret |-> TRUE, tnr |-> Jump]
      [] direction = "DOWN" -> [ret |-> TRUE, tnr |-> Continue]
      [] OTHER -> [ret |-> FALSE, tnr |-> Jump]

\* (mutant: Stop does not return, the function goes on)
handle_visit_recursion_stop_goes_on(expr, direction) ==
    CASE expr = Continue -> [ret |-> FALSE, tnr |-> Continue]
      [] expr = Jump -> handle_jump(direction)
      [] expr = Stop -> [ret |-> FALSE, tnr |-> Stop]

handle_visit_recursion(expr, direction) ==
    CASE expr = Continue -> [ret |-> FALSE, tnr |-> Continue]
      [] expr = Jump -> handle_jump(direction)
      [] expr = Stop -> [ret |-> TRUE, tnr |-> Stop]

\* ------------------------------------------------------------------------
\* Closures.  A closure is a value: what it does (kind) and what it
\* captures.  call(F, x, log) is F(x), and is defined after the methods the
\* closures call.
\* ------------------------------------------------------------------------
\* TestVisitor's boxed f_down / f_up, and the f given to apply
VisitorFn(cb, f) == [kind |-> "TestVisitor", cb |-> cb, f |-> f]

\* TestRewriter's boxed f_down / f_up, and the f given to transform_*
RewriterFn(cb, f) == [kind |-> "TestRewriter", cb |-> cb, f |-> f]

\* |n| n.visit(visitor), |c| c.rewrite(rewriter), |n| n.apply(f),
\* |c| c.transform_down(f), |n| n.map_children(f), ...
Closure(kind, f) == [kind |-> kind, f |-> f]

\* |c| c.transform_down_up(f_down, f_up)
Closure2(kind, f_down, f_up) == [kind |-> kind, f_down |-> f_down, f_up |-> f_up]

\* |new_children| Self { children: new_children, ..self } and
\* |new_children| self.with_new_children(new_children): they capture the node
ClosureOn(kind, self, new_self) == [kind |-> kind, self |-> self, new_self |-> new_self]

RECURSIVE call(_, _, _)
RECURSIVE visit(_, _, _)
RECURSIVE apply(_, _, _)
RECURSIVE rewrite(_, _, _)
RECURSIVE transform_down(_, _, _)
RECURSIVE transform_down_mut(_, _, _)
RECURSIVE transform_up(_, _, _)
RECURSIVE transform_up_mut(_, _, _)
RECURSIVE transform_down_up(_, _, _, _)
RECURSIVE map_children(_, _, _)

\* `let r = e;`: r is bound to e in { body : r \in {e} }, and Only takes the
\* value of the body out of the set
Only(S) == CHOOSE v \in S : TRUE

\* ------------------------------------------------------------------------
\* apply_children: the loop over the children, the same in the three
\* implementations (TestTreeNode, Arc<T: DynTreeNode>, ConcreteTreeNode).
\* ------------------------------------------------------------------------
RECURSIVE apply_children_loop(_, _, _, _, _)
\* (mutant: a Jump returned for a child ends the loop)
apply_children_loop_jump_ends(children, i, f, tnr, log) ==
    IF i > Len(children) THEN OkTnr(tnr, log)
    ELSE Only({ IF ~r.ok THEN r
                ELSE LET h == handle_visit_recursion(r.tnr, "UP")
                     IN  IF h.ret THEN OkTnr(h.tnr, r.log)
                         ELSE apply_children_loop(children, i + 1, f, r.tnr, r.log)
                : r \in {call(f, children[i], log)} })

apply_children_loop(children, i, f, tnr, log) ==
    IF i > Len(children) THEN OkTnr(tnr, log)
    ELSE Only({ IF ~r.ok THEN r
                ELSE LET h == handle_visit_recursion(r.tnr, "NONE")
                     IN  IF h.ret THEN OkTnr(h.tnr, r.log)
                         ELSE apply_children_loop(children, i + 1, f, r.tnr, r.log)
                : r \in {call(f, children[i], log)} })

apply_children(node, f, log) ==
    apply_children_loop(node.children, 1, f, Continue, log)

\* ------------------------------------------------------------------------
\* TreeNode::visit
\* ------------------------------------------------------------------------
\* (mutant: f_up is invoked before the children are visited)
visit_f_up_first(node, visitor, log) ==
    LET down == TestVisitor_f(visitor, "f_down", node, log)
    IN  IF ~down.ok THEN down
        ELSE CASE down.tnr = Continue ->
                    LET up == TestVisitor_f(visitor, "f_up", node, down.log)
                    IN  IF ~up.ok THEN up
                        ELSE apply_children(node, Closure("visit", visitor), up.log)
               [] down.tnr = Jump -> TestVisitor_f(visitor, "f_up", node, down.log)
               [] down.tnr = Stop -> OkTnr(Stop, down.log)

\* (mutant: an Err of the children is taken for a Stop)
visit_err_as_stop(node, visitor, log) ==
    LET down == TestVisitor_f(visitor, "f_down", node, log)
    IN  IF ~down.ok THEN down
        ELSE CASE down.tnr = Continue ->
                    Only({ IF ~c.ok THEN OkTnr(Stop, c.log)
                           ELSE LET h == handle_visit_recursion(c.tnr, "UP")
                                IN  IF h.ret THEN OkTnr(h.tnr, c.log)
                                    ELSE TestVisitor_f(visitor, "f_up", node, c.log)
                           : c \in {apply_children(node, Closure("visit", visitor),
                                                   down.log)} })
               [] down.tnr = Jump -> TestVisitor_f(visitor, "f_up", node, down.log)
               [] down.tnr = Stop -> OkTnr(Stop, down.log)

\* (mutant: after a Jump of f_down, visit returns Jump to the parent)
visit_jump_goes_up(node, visitor, log) ==
    LET down == TestVisitor_f(visitor, "f_down", node, log)
    IN  IF ~down.ok THEN down
        ELSE CASE down.tnr = Continue ->
                    Only({ IF ~c.ok THEN c
                           ELSE LET h == handle_visit_recursion(c.tnr, "UP")
                                IN  IF h.ret THEN OkTnr(h.tnr, c.log)
                                    ELSE TestVisitor_f(visitor, "f_up", node, c.log)
                           : c \in {apply_children(node, Closure("visit", visitor),
                                                   down.log)} })
               [] down.tnr = Jump ->
                    LET up == TestVisitor_f(visitor, "f_up", node, down.log)
                    IN  IF ~up.ok THEN up ELSE OkTnr(Jump, up.log)
               [] down.tnr = Stop -> OkTnr(Stop, down.log)

\* (mutant: after a Jump of f_down, visit returns without invoking f_up)
visit_jump_skips_f_up(node, visitor, log) ==
    LET down == TestVisitor_f(visitor, "f_down", node, log)
    IN  IF ~down.ok THEN down
        ELSE CASE down.tnr = Continue ->
                    Only({ IF ~c.ok THEN c
                           ELSE LET h == handle_visit_recursion(c.tnr, "UP")
                                IN  IF h.ret THEN OkTnr(h.tnr, c.log)
                                    ELSE TestVisitor_f(visitor, "f_up", node, c.log)
                           : c \in {apply_children(node, Closure("visit", visitor),
                                                   down.log)} })
               [] down.tnr = Jump -> OkTnr(Continue, down.log)
               [] down.tnr = Stop -> OkTnr(Stop, down.log)

visit(node, visitor, log) ==
    LET down == TestVisitor_f(visitor, "f_down", node, log)
    IN  IF ~down.ok THEN down
        ELSE CASE down.tnr = Continue ->
                    Only({ IF ~c.ok THEN c
                           ELSE LET h == handle_visit_recursion(c.tnr, "UP")
                                IN  IF h.ret THEN OkTnr(h.tnr, c.log)
                                    ELSE TestVisitor_f(visitor, "f_up", node, c.log)
                           : c \in {apply_children(node, Closure("visit", visitor),
                                                   down.log)} })
               [] down.tnr = Jump -> TestVisitor_f(visitor, "f_up", node, down.log)
               [] down.tnr = Stop -> OkTnr(Stop, down.log)

\* ------------------------------------------------------------------------
\* TreeNode::apply
\* ------------------------------------------------------------------------
\* (mutant: after a Jump, apply returns Jump)
apply_jump_returned(node, f, log) ==
    Only({ IF ~r.ok THEN r
           ELSE IF r.tnr # Continue THEN OkTnr(r.tnr, r.log)
           ELSE apply_children(node, Closure("apply", f), r.log)
           : r \in {call(f, node, log)} })

\* (mutant: Jump is treated like Continue, the children are scanned)
apply_jump_like_continue(node, f, log) ==
    Only({ IF ~r.ok THEN r
           ELSE IF r.tnr = Stop THEN OkTnr(Stop, r.log)
           ELSE apply_children(node, Closure("apply", f), r.log)
           : r \in {call(f, node, log)} })

apply(node, f, log) ==
    Only({ IF ~r.ok THEN r
           ELSE LET h == handle_visit_recursion(r.tnr, "DOWN")
                IN  IF h.ret THEN OkTnr(h.tnr, r.log)
                    ELSE apply_children(node, Closure("apply", f), r.log)
           : r \in {call(f, node, log)} })

\* ------------------------------------------------------------------------
\* Transformed::try_transform_node_with and Transformed::try_transform_node
\* ------------------------------------------------------------------------
\* (mutant: after a Jump the signal stays Jump, whatever return_if_jump is)
try_transform_node_with_jump_kept(self, f, return_if_jump) ==
    CASE self.tnr = Continue ->
            Only({ IF ~t.ok THEN t
                   ELSE [t EXCEPT !.transformed = t.transformed \/ self.transformed]
                   : t \in {call(f, self.data, self.log)} })
      [] self.tnr = Jump -> self
      [] self.tnr = Stop -> self

\* (mutant: Stop and Jump are returned as failures)
try_transform_node_with_stop_is_err(self, f, return_if_jump) ==
    CASE self.tnr = Continue ->
            Only({ IF ~t.ok THEN t
                   ELSE [t EXCEPT !.transformed = t.transformed \/ self.transformed]
                   : t \in {call(f, self.data, self.log)} })
      [] self.tnr = Jump -> Err(ErrOf("Jump", 0), self.log)
      [] self.tnr = Stop -> Err(ErrOf("Stop", 0), self.log)

\* (mutant: f is called after a Jump as well)
try_transform_node_with_jump_calls_f(self, f, return_if_jump) ==
    CASE self.tnr \in {Continue, Jump} ->
            Only({ IF ~t.ok THEN t
                   ELSE [t EXCEPT !.transformed = t.transformed \/ self.transformed]
                   : t \in {call(f, self.data, self.log)} })
      [] self.tnr = Stop -> self

\* (mutant: the flag of self is lost)
try_transform_node_with_flag_lost(self, f, return_if_jump) ==
    CASE self.tnr = Continue -> call(f, self.data, self.log)
      [] self.tnr = Jump -> [self EXCEPT !.tnr = return_if_jump]
      [] self.tnr = Stop -> self

\* (mutant: Stop is handled like Jump)
try_transform_node_with_stop_like_jump(self, f, return_if_jump) ==
    CASE self.tnr = Continue ->
            Only({ IF ~t.ok THEN t
                   ELSE [t EXCEPT !.transformed = t.transformed \/ self.transformed]
                   : t \in {call(f, self.data, self.log)} })
      [] self.tnr = Jump -> [self EXCEPT !.tnr = return_if_jump]
      [] self.tnr = Stop -> [self EXCEPT !.tnr = return_if_jump]

try_transform_node_with(self, f, return_if_jump) ==
    CASE self.tnr = Continue ->
            Only({ IF ~t.ok THEN t
                   ELSE [t EXCEPT !.transformed = t.transformed \/ self.transformed]
                   : t \in {call(f, self.data, self.log)} })
      [] self.tnr = Jump -> [self EXCEPT !.tnr = return_if_jump]
      [] self.tnr = Stop -> self

\* (mutant: f is applied only when the signal is Continue)
try_transform_node_jump_skips_f(self, f) ==
    IF self.tnr \in {Jump, Stop} THEN self
    ELSE Only({ IF ~t.ok THEN t
                ELSE [t EXCEPT !.transformed = t.transformed \/ self.transformed]
                : t \in {call(f, self.data, self.log)} })

try_transform_node(self, f) ==
    IF self.tnr = Stop THEN self
    ELSE Only({ IF ~t.ok THEN t
                ELSE [t EXCEPT !.transformed = t.transformed \/ self.transformed]
                : t \in {call(f, self.data, self.log)} })

\* Transformed::update_data: f does not fail
update_data(self, f) == [self EXCEPT !.data = call(f, self.data, self.log).data]

\* Transformed::map_data: f returns a Result
map_data(self, f) ==
    Only({ IF ~r.ok THEN r
           ELSE Transformed_new(r.data, self.transformed, self.tnr, r.log)
           : r \in {call(f, self.data, self.log)} })

\* ------------------------------------------------------------------------
\* TransformedIterator::map_until_stop_and_collect.  The loop is the map of
\* the closure over the iterator and the collect; tnr, transformed and data
\* are the closure's two captured variables and the Vec being collected.
\* ------------------------------------------------------------------------
RECURSIVE map_until_stop_loop(_, _, _, _, _, _, _)
\* (mutant: once an item reported Jump, the running tnr stays Jump)
map_until_stop_loop_jump_sticks(items, i, f, tnr, transformed, data, log) ==
    IF i > Len(items) THEN Transformed_new(data, transformed, tnr, log)
    ELSE IF tnr \in {Continue, Jump}
         THEN Only({ IF ~result.ok THEN result
                     ELSE map_until_stop_loop(items, i + 1, f,
                                              IF tnr = Jump THEN Jump ELSE result.tnr,
                                              transformed \/ result.transformed,
                                              Append(data, result.data), result.log)
                     : result \in {call(f, items[i], log)} })
         ELSE map_until_stop_loop(items, i + 1, f, tnr, transformed,
                                  Append(data, items[i]), log)

\* (mutant: f is applied to every item, whatever the running tnr)
map_until_stop_loop_never_stops(items, i, f, tnr, transformed, data, log) ==
    IF i > Len(items) THEN Transformed_new(data, transformed, tnr, log)
    ELSE Only({ IF ~result.ok THEN result
                ELSE map_until_stop_loop(items, i + 1, f, result.tnr,
                                         transformed \/ result.transformed,
                                         Append(data, result.data), result.log)
                : result \in {call(f, items[i], log)} })

\* (mutant: once an item reported Stop, the remaining items are not collected)
map_until_stop_loop_stop_ends(items, i, f, tnr, transformed, data, log) ==
    IF i > Len(items) THEN Transformed_new(data, transformed, tnr, log)
    ELSE IF tnr \in {Continue, Jump}
         THEN Only({ IF ~result.ok THEN result
                     ELSE map_until_stop_loop(items, i + 1, f, result.tnr,
                                              transformed \/ result.transformed,
                                              Append(data, result.data), result.log)
                     : result \in {call(f, items[i], log)} })
         ELSE Transformed_new(data, transformed, tnr, log)

map_until_stop_loop(items, i, f, tnr, transformed, data, log) ==
    IF i > Len(items) THEN Transformed_new(data, transformed, tnr, log)
    ELSE IF tnr \in {Continue, Jump}
         THEN Only({ IF ~result.ok THEN result
                     ELSE map_until_stop_loop(items, i + 1, f, result.tnr,
                                              transformed \/ result.transformed,
                                              Append(data, result.data), result.log)
                     : result \in {call(f, items[i], log)} })
         ELSE map_until_stop_loop(items, i + 1, f, tnr, transformed,
                                  Append(data, items[i]), log)

map_until_stop_and_collect(items, f, log) ==
    map_until_stop_loop(items, 1, f, Continue, FALSE, <<>>, log)

\* ------------------------------------------------------------------------
\* map_until_stop_and_collect!($($EXPR, $F),*): the macro expands to one
\* `if` per pair, in the order of the pairs; each pair has its own
\* transformation $F.  The `?` after $F($EXPR).map(..) returns a failure from
\* the enclosing function; data is the tuple of the values of the `if`s.
\* ------------------------------------------------------------------------
Pair(EXPR, F) == [EXPR |-> EXPR, F |-> F]

RECURSIVE map_until_stop_and_collect_expansion(_, _, _, _, _, _)
\* (mutant: a transformation is invoked only while the running tnr is Continue)
map_until_stop_and_collect_expansion_jump_halts(pairs, i, tnr, transformed, data, log) ==
    IF i > Len(pairs) THEN Transformed_new(data, transformed, tnr, log)
    ELSE IF tnr = Continue
         THEN Only({ IF ~result.ok THEN result
                     ELSE map_until_stop_and_collect_expansion(
                              pairs, i + 1, result.tnr,
                              transformed \/ result.transformed,
                              Append(data, result.data), result.log)
                     : result \in {call(pairs[i].F, pairs[i].EXPR, log)} })
         ELSE map_until_stop_and_collect_expansion(
                  pairs, i + 1, tnr, transformed, Append(data, pairs[i].EXPR), log)

map_until_stop_and_collect_expansion(pairs, i, tnr, transformed, data, log) ==
    IF i > Len(pairs) THEN Transformed_new(data, transformed, tnr, log)
    ELSE IF tnr = Continue \/ tnr = Jump
         THEN Only({ IF ~result.ok THEN result
                     ELSE map_until_stop_and_collect_expansion(
                              pairs, i + 1, result.tnr,
                              transformed \/ result.transformed,
                              Append(data, result.data), result.log)
                     : result \in {call(pairs[i].F, pairs[i].EXPR, log)} })
         ELSE map_until_stop_and_collect_expansion(
                  pairs, i + 1, tnr, transformed, Append(data, pairs[i].EXPR), log)

map_until_stop_and_collect_macro(pairs, log) ==
    map_until_stop_and_collect_expansion(pairs, 1, Continue, FALSE, <<>>, log)

\* ------------------------------------------------------------------------
\* The node contracts.  The traits only declare these operations; the
\* implementations belong to the node types.
\* ------------------------------------------------------------------------
Rebuilt(log, node, new_children) ==
    [log EXCEPT !.rebuilds = Append(@, [node |-> node.data.name,
                                        given |-> Len(new_children),
                                        had |-> Len(node.children),
                                        children |-> [k \in 1..Len(new_children) |->
                                                         new_children[k].data.name],
                                        taken |-> [k \in 1..Len(node.children) |->
                                                      node.children[k].data.name],
                                        after |-> Len(log.visits),
                                        fail |-> node.frail])]

\* ConcreteTreeNode::take_children
take_children(self) == <<[self EXCEPT !.children = <<>>], self.children>>

\* ConcreteTreeNode::with_new_children
with_new_children(self, children, log) ==
    IF self.frail THEN Err(ErrOf("with_new_children", self.data.name), log)
    ELSE [ok |-> TRUE, data |-> [self EXCEPT !.children = children], log |-> log]

\* DynTreeNode::arc_children
arc_children(self) == self.children

\* DynTreeNode::with_new_arc_children
with_new_arc_children(self, arc_self, new_children, log) ==
    IF self.frail THEN Err(ErrOf("with_new_arc_children", self.data.name), log)
    ELSE [ok |-> TRUE, data |-> [arc_self EXCEPT !.children = new_children],
          log |-> log]

\* ------------------------------------------------------------------------
\* TreeNode::map_children, one per implementation
\* ------------------------------------------------------------------------
\* (mutant: the node is reported transformed whatever f reported)
map_children_test_always_yes(self, f, log) ==
    Only({ IF ~r.ok THEN r
           ELSE [update_data(r, ClosureOn("Self { children, ..self }", self, self))
                     EXCEPT !.transformed = TRUE]
           : r \in {map_until_stop_and_collect(self.children, f, log)} })

\* (mutant: after a Stop the node is returned with the children it had)
map_children_test_stop_drops_children(self, f, log) ==
    Only({ IF ~r.ok THEN r
           ELSE IF r.tnr = Stop THEN [r EXCEPT !.data = self]
           ELSE update_data(r, ClosureOn("Self { children, ..self }", self, self))
           : r \in {map_until_stop_and_collect(self.children, f, log)} })

\* impl<T> TreeNode for TestTreeNode<T>
map_children_test(self, f, log) ==
    Only({ IF ~r.ok THEN r
           ELSE update_data(r, ClosureOn("Self { children, ..self }", self, self))
           : r \in {map_until_stop_and_collect(self.children, f, log)} })

\* (mutant: the node is reconstructed whether a child changed or not)
map_children_arc_always_rebuilds(self, f, log) ==
    LET children == arc_children(self)
    IN  IF children # <<>>
        THEN Only({ IF ~new_children.ok THEN new_children
                    ELSE map_data(new_children,
                                  ClosureOn("with_new_arc_children", self, self))
                    : new_children \in {map_until_stop_and_collect(children, f, log)} })
        ELSE Transformed_no(self, log)

\* impl<T: DynTreeNode + ?Sized> TreeNode for Arc<T>
map_children_arc(self, f, log) ==
    LET children == arc_children(self)
    IN  IF children # <<>>
        THEN Only({ IF ~new_children.ok THEN new_children
                    ELSE IF new_children.transformed
                         THEN map_data(new_children,
                                       ClosureOn("with_new_arc_children", self, self))
                         ELSE Transformed_new(self, FALSE, new_children.tnr,
                                              new_children.log)
                    : new_children \in {map_until_stop_and_collect(children, f, log)} })
        ELSE Transformed_no(self, log)

\* (mutant: the reconstructed node is returned with the signal Continue)
map_children_concrete_signal_lost(self, f, log) ==
    LET taken == take_children(self)
        new_self == taken[1]
        children == taken[2]
    IN  IF children # <<>>
        THEN Only({ IF ~new_children.ok THEN new_children
                    ELSE map_data([new_children EXCEPT !.tnr = Continue],
                                  ClosureOn("with_new_children", self, new_self))
                    : new_children \in {map_until_stop_and_collect(children, f, log)} })
        ELSE Transformed_no(new_self, log)

\* impl<T: ConcreteTreeNode> TreeNode for T
map_children_concrete(self, f, log) ==
    LET taken == take_children(self)
        new_self == taken[1]
        children == taken[2]
    IN  IF children # <<>>
        THEN Only({ IF ~new_children.ok THEN new_children
                    ELSE map_data(new_children,
                                  ClosureOn("with_new_children", self, new_self))
                    : new_children \in {map_until_stop_and_collect(children, f, log)} })
        ELSE Transformed_no(new_self, log)

\* Static dispatch on the type of self
map_children(self, f, log) ==
    CASE self.ty = TestTreeNode -> map_children_test(self, f, log)
      [] self.ty = ArcDynTreeNode -> map_children_arc(self, f, log)
      [] self.ty = ConcreteTreeNode -> map_children_concrete(self, f, log)

\* ------------------------------------------------------------------------
\* impl TreeNode for LogicalPlan.  Its map_children takes a transform of
\* the type FnMut(Self) -> Result<Self>: there is no envelope, and a
\* transformed input is known to have changed by comparing it with the
\* original.  LogicalPlan::inputs and LogicalPlan::with_new_inputs belong to
\* the plan: the inputs are the children in order, and the reconstruction
\* returns the plan with the given inputs or fails.
\* ------------------------------------------------------------------------
LogicalPlan == "LogicalPlan"

\* A closure |p| -> Result<Self>: it returns the plan as it is, another
\* plan, or an error
Transform_f(cb, f, node, log) ==
    LET r == cb[f][node.data.name]
        pushed == Visited(log, f, node, r)
        new_node == [node EXCEPT !.data = Wrap(f, node.data)]
    IN  IF r.fail THEN Err(ErrOf(f, node.data.name), pushed)
        ELSE [ok |-> TRUE, data |-> IF r.changed THEN new_node ELSE node,
              log |-> pushed]

TransformFn(cb, f) == [kind |-> "FnMut(Self) -> Result<Self>", cb |-> cb, f |-> f]

inputs(self) == self.children

with_new_inputs(self, new_inputs, log) ==
    IF self.frail THEN Err(ErrOf("with_new_inputs", self.data.name), log)
    ELSE [ok |-> TRUE, data |-> [self EXCEPT !.children = new_inputs], log |-> log]

\* old_children.iter().map(|&c| c.clone()).map(transform)
\*     .collect::<Result<Vec<_>>>(): the first Err ends the iteration
RECURSIVE map_collect(_, _, _, _, _)
map_collect(items, i, transform, data, log) ==
    IF i > Len(items) THEN [ok |-> TRUE, data |-> data, log |-> log]
    ELSE Only({ IF ~r.ok THEN r
                ELSE map_collect(items, i + 1, transform, Append(data, r.data), r.log)
                : r \in {call(transform, items[i], log)} })

\* zip(..).any(|(c1, c2)| c1 != &c2)
any_differs(old_children, new_children) ==
    \E k \in 1..Len(old_children) :
        k <= Len(new_children) /\ old_children[k] # new_children[k]

\* (mutant: the plan is rebuilt whether an input changed or not)
map_children_logical_plan_always_rebuilds(self, transform, log) ==
    LET old_children == inputs(self)
    IN  Only({ IF ~new_children.ok THEN new_children
               ELSE with_new_inputs(self, new_children.data,
                                    Rebuilt(new_children.log, self, new_children.data))
               : new_children \in {map_collect(old_children, 1, transform, <<>>, log)} })

\* LogicalPlan::map_children
map_children_logical_plan(self, transform, log) ==
    LET old_children == inputs(self)
    IN  Only({ IF ~new_children.ok THEN new_children
               ELSE IF any_differs(old_children, new_children.data)
                    THEN with_new_inputs(self, new_children.data,
                                         Rebuilt(new_children.log, self,
                                                 new_children.data))
                    ELSE [ok |-> TRUE, data |-> self, log |-> new_children.log]
               : new_children \in {map_collect(old_children, 1, transform, <<>>, log)} })

\* ------------------------------------------------------------------------
\* impl TreeNode for Expr.  An Expr is a record of its variant and of the
\* fields of the variant; a Box<Expr> or an element of a Vec<Expr> is an
\* expression of its own, here a column.  An Option is Some(v) or
\* NoneValue.  The constructors (Alias::new, BinaryExpr::new, ...) store
\* their arguments in the fields of the same names.
\* ------------------------------------------------------------------------
Some(v) == [some |-> TRUE, v |-> v]
NoneValue == [some |-> FALSE]

\* Option::into_iter / Option<Vec>::iter().flatten(): nothing, or what is inside
option_iter(option) == IF option.some THEN <<option.v>> ELSE <<>>

option_flatten(option) == IF option.some THEN option.v ELSE <<>>

RECURSIVE flatten(_)
flatten(lists) == IF lists = <<>> THEN <<>> ELSE Head(lists) \o flatten(Tail(lists))

\* TreeNodeRecursion::and_then_on_continue and
\* VisitRecursionIterator::for_each_till_continue: the callback goes on to
\* the next expression while it reports Continue; another signal, or an
\* error, is returned at once
RECURSIVE for_each_till_continue(_, _, _, _)
for_each_till_continue(items, i, f, log) ==
    IF i > Len(items) THEN OkTnr(Continue, log)
    ELSE Only({ IF ~r.ok THEN r
                ELSE IF r.tnr = Continue
                     THEN for_each_till_continue(items, i + 1, f, r.log)
                     ELSE r
                : r \in {call(f, items[i], log)} })

\* a.and_then_on_continue(|| b)?.and_then_on_continue(|| c): the parts of a
\* chain, each a run of expressions given to the callback one by one
RECURSIVE and_then_on_continue(_, _, _, _)
and_then_on_continue(parts, i, f, log) ==
    IF i > Len(parts) THEN OkTnr(Continue, log)
    ELSE Only({ IF ~r.ok THEN r
                ELSE IF r.tnr = Continue
                     THEN and_then_on_continue(parts, i + 1, f, r.log)
                     ELSE r
                : r \in {for_each_till_continue(parts[i], 1, f, log)} })

SingleExprVariants ==
    {"Alias", "Not", "IsNotNull", "IsTrue", "IsFalse", "IsUnknown", "IsNotTrue",
     "IsNotFalse", "IsNotUnknown", "IsNull", "Negative", "Cast", "TryCast", "Sort",
     "InSubquery"}

LeafVariants ==
    {"Column", "OuterReferenceColumn", "ScalarVariable", "Literal", "Exists",
     "ScalarSubquery", "Wildcard", "Placeholder"}

\* |(w, t)| f(w)?.and_then_on_continue(|| f(t)) over when_then_expr
when_then_iter(when_then_expr) ==
    flatten([k \in 1..Len(when_then_expr) |->
                <<when_then_expr[k][1], when_then_expr[k][2]>>])

\* Expr::visit_children: the parts of the chain of each arm of the match
visit_children_parts(self) ==
    CASE self.variant \in SingleExprVariants -> << <<self.expr>> >>
      [] self.variant = "GetIndexedField" ->
             << <<self.expr>> >>
                 \o ( CASE self.field.access = "ListIndex" -> << <<self.field.key>> >>
                        [] self.field.access = "ListRange" ->
                               << <<self.field.start>>, <<self.field.stop>> >>
                        [] self.field.access = "NamedStructField" -> << >> )
      [] self.variant = "GroupingSet" ->
             ( CASE self.grouping_set.kind \in {"Rollup", "Cube"} ->
                        << self.grouping_set.exprs >>
                 [] self.grouping_set.kind = "GroupingSets" ->
                        << flatten(self.grouping_set.lists_of_exprs) >> )
      [] self.variant = "ScalarFunction" -> << self.args >>
      [] self.variant \in LeafVariants -> << >>
      [] self.variant = "BinaryExpr" -> << <<self.left>>, <<self.right>> >>
      [] self.variant \in {"Like", "SimilarTo"} -> << <<self.expr>>, <<self.pattern>> >>
      [] self.variant = "Between" -> << <<self.expr>>, <<self.low>>, <<self.high>> >>
      [] self.variant = "Case" ->
             << option_iter(self.expr), when_then_iter(self.when_then_expr),
                option_iter(self.else_expr) >>
      [] self.variant = "AggregateFunction" ->
             << self.args, option_iter(self.filter), option_flatten(self.order_by) >>
      [] self.variant = "WindowFunction" ->
             << self.args, self.partition_by, self.order_by >>
      [] self.variant = "InList" -> << <<self.expr>>, self.list >>

visit_children(self, f, log) == and_then_on_continue(visit_children_parts(self), 1, f, log)

\* transform_boxed / transform_option_box / transform_vec /
\* transform_option_vec: each returns a Result
transform_boxed(boxed_expr, transform, log) == call(transform, boxed_expr, log)

transform_option_box(option_box, transform, log) ==
    IF option_box.some
    THEN Only({ IF ~r.ok THEN r ELSE [r EXCEPT !.data = Some(r.data)]
                : r \in {transform_boxed(option_box.v, transform, log)} })
    ELSE [ok |-> TRUE, data |-> NoneValue, log |-> log]

RECURSIVE transform_vec_loop(_, _, _, _)
transform_vec_loop(v, i, transform, log) ==
    IF i > Len(v) THEN [ok |-> TRUE, data |-> v, log |-> log]
    ELSE Only({ IF ~r.ok THEN r
                ELSE transform_vec_loop([v EXCEPT ![i] = r.data], i + 1, transform, r.log)
                : r \in {call(transform, v[i], log)} })

transform_vec(v, transform, log) == transform_vec_loop(v, 1, transform, log)

transform_option_vec(option_box, transform, log) ==
    IF option_box.some
    THEN Only({ IF ~r.ok THEN r ELSE [r EXCEPT !.data = Some(r.data)]
                : r \in {transform_vec(option_box.v, transform, log)} })
    ELSE [ok |-> TRUE, data |-> NoneValue, log |-> log]

\* case.when_then_expr.into_iter().map(|(when, then)| Ok((transform_boxed(when)?,
\* transform_boxed(then)?))).collect::<Result<Vec<_>>>()
RECURSIVE transform_when_then(_, _, _, _)
transform_when_then(when_then_expr, i, transform, log) ==
    IF i > Len(when_then_expr) THEN [ok |-> TRUE, data |-> when_then_expr, log |-> log]
    ELSE Only({ IF ~when.ok THEN when
                ELSE Only({ IF ~then.ok THEN then
                            ELSE transform_when_then(
                                     [when_then_expr EXCEPT ![i] = <<when.data, then.data>>],
                                     i + 1, transform, then.log)
                            : then \in {transform_boxed(when_then_expr[i][2], transform,
                                                        when.log)} })
                : when \in {transform_boxed(when_then_expr[i][1], transform, log)} })

\* lists_of_exprs.iter().map(|exprs| transform_vec(exprs.clone(), ..))
\*     .collect::<Result<Vec<_>>>()
RECURSIVE transform_lists(_, _, _, _)
transform_lists(lists_of_exprs, i, transform, log) ==
    IF i > Len(lists_of_exprs) THEN [ok |-> TRUE, data |-> lists_of_exprs, log |-> log]
    ELSE Only({ IF ~r.ok THEN r
                ELSE transform_lists([lists_of_exprs EXCEPT ![i] = r.data], i + 1,
                                     transform, r.log)
                : r \in {transform_vec(lists_of_exprs[i], transform, log)} })

\* The arguments of a constructor are evaluated from left to right, and the
\* `?` after each returns its failure; an argument is a field moved as it is,
\* or one of the transform_* functions applied to a field
Moved(v) == [by |-> "move", v |-> v]
Boxed(v) == [by |-> "transform_boxed", v |-> v]
OptionBox(v) == [by |-> "transform_option_box", v |-> v]
Vec(v) == [by |-> "transform_vec", v |-> v]
OptionVec(v) == [by |-> "transform_option_vec", v |-> v]
WhenThen(v) == [by |-> "transform_when_then", v |-> v]
Lists(v) == [by |-> "transform_lists", v |-> v]

argument(arg, transform, log) ==
    CASE arg.by = "move" -> [ok |-> TRUE, data |-> arg.v, log |-> log]
      [] arg.by = "transform_boxed" -> transform_boxed(arg.v, transform, log)
      [] arg.by = "transform_option_box" -> transform_option_box(arg.v, transform, log)
      [] arg.by = "transform_vec" -> transform_vec(arg.v, transform, log)
      [] arg.by = "transform_option_vec" -> transform_option_vec(arg.v, transform, log)
      [] arg.by = "transform_when_then" -> transform_when_then(arg.v, 1, transform, log)
      [] arg.by = "transform_lists" -> transform_lists(arg.v, 1, transform, log)

RECURSIVE arguments(_, _, _, _, _)
arguments(args, i, transform, data, log) ==
    IF i > Len(args) THEN [ok |-> TRUE, data |-> data, log |-> log]
    ELSE Only({ IF ~r.ok THEN r
                ELSE arguments(args, i + 1, transform, Append(data, r.data), r.log)
                : r \in {argument(args[i], transform, log)} })

\* internal_err!("Function `Expr` with name should be resolved.")
internal_err(log) ==
    Err(ErrOf("internal_err", "Function Expr with name should be resolved."), log)

\* Variant(Struct::new(a, b, ..)): the expression of the variant whose
\* fields, in the order of the parameters of the constructor, are the values
\* of the arguments
new(variant, fields, a) ==
    IF ~a.ok THEN a
    ELSE [ok |-> TRUE,
          data |-> [n \in {"variant"} \cup { fields[k] : k \in 1..Len(fields) } |->
                       IF n = "variant" THEN variant
                       ELSE a.data[CHOOSE k \in 1..Len(fields) : fields[k] = n]],
          log |-> a.log]

construct(variant, fields, args, transform, log) ==
    Only({ new(variant, fields, a) : a \in {arguments(args, 1, transform, <<>>, log)} })

\* Expr::map_children
map_children_expr(self, transform, log) ==
    CASE self.variant = "Alias" ->
             construct("Alias", <<"expr", "relation", "name">>,
                       <<Boxed(self.expr), Moved(self.relation), Moved(self.name)>>,
                       transform, log)
      [] self.variant \in LeafVariants -> [ok |-> TRUE, data |-> self, log |-> log]
      [] self.variant = "InSubquery" ->
             construct("InSubquery", <<"expr", "subquery", "negated">>,
                       <<Boxed(self.expr), Moved(self.subquery), Moved(self.negated)>>,
                       transform, log)
      [] self.variant = "BinaryExpr" ->
             construct("BinaryExpr", <<"left", "op", "right">>,
                       <<Boxed(self.left), Moved(self.op), Boxed(self.right)>>,
                       transform, log)
      [] self.variant \in {"Like", "SimilarTo"} ->
             construct(self.variant,
                       <<"negated", "expr", "pattern", "escape_char", "case_insensitive">>,
                       <<Moved(self.negated), Boxed(self.expr), Boxed(self.pattern),
                         Moved(self.escape_char), Moved(self.case_insensitive)>>,
                       transform, log)
      [] self.variant \in {"Not", "IsNotNull", "IsNull", "IsTrue", "IsFalse", "IsUnknown",
                           "IsNotTrue", "IsNotFalse", "IsNotUnknown", "Negative"} ->
             construct(self.variant, <<"expr">>, <<Boxed(self.expr)>>, transform, log)
      [] self.variant = "Between" ->
             construct("Between", <<"expr", "negated", "low", "high">>,
                       <<Boxed(self.expr), Moved(self.negated), Boxed(self.low),
                         Boxed(self.high)>>,
                       transform, log)
      [] self.variant = "Case" ->
             construct("Case", <<"expr", "when_then_expr", "else_expr">>,
                       <<OptionBox(self.expr), WhenThen(self.when_then_expr),
                         OptionBox(self.else_expr)>>,
                       transform, log)
      [] self.variant \in {"Cast", "TryCast"} ->
             construct(self.variant, <<"expr", "data_type">>,
                       <<Boxed(self.expr), Moved(self.data_type)>>, transform, log)
      [] self.variant = "Sort" ->
             construct("Sort", <<"expr", "asc", "nulls_first">>,
                       <<Boxed(self.expr), Moved(self.asc), Moved(self.nulls_first)>>,
                       transform, log)
      [] self.variant = "ScalarFunction" ->
             IF self.func_def.kind \in {"BuiltIn", "UDF"}
             THEN construct("ScalarFunction", <<"func_def", "args">>,
                            <<Moved(self.func_def), Vec(self.args)>>, transform, log)
             ELSE internal_err(log)
      [] self.variant = "WindowFunction" ->
             construct("WindowFunction",
                       <<"fun", "args", "partition_by", "order_by", "window_frame">>,
                       <<Moved(self.fun), Vec(self.args), Vec(self.partition_by),
                         Vec(self.order_by), Moved(self.window_frame)>>,
                       transform, log)
      [] self.variant = "AggregateFunction" ->
             ( CASE self.func_def.kind = "BuiltIn" ->
                        construct("AggregateFunction",
                                  <<"func_def", "args", "distinct", "filter", "order_by">>,
                                  <<Moved(self.func_def), Vec(self.args),
                                    Moved(self.distinct), OptionBox(self.filter),
                                    OptionVec(self.order_by)>>,
                                  transform, log)
                 [] self.func_def.kind = "UDF" ->
                        Only({ IF ~order_by.ok THEN order_by
                               ELSE construct(
                                        "AggregateFunction",
                                        <<"func_def", "args", "distinct", "filter",
                                          "order_by">>,
                                        <<Moved(self.func_def), Vec(self.args),
                                          Moved(FALSE), OptionBox(self.filter),
                                          OptionVec(order_by.data)>>,
                                        transform, order_by.log)
                               : order_by \in
                                   { IF self.order_by.some
                                     THEN Only({ IF ~r.ok THEN r
                                                 ELSE [r EXCEPT !.data = Some(r.data)]
                                                 : r \in {transform_vec(self.order_by.v,
                                                                        transform, log)} })
                                     ELSE [ok |-> TRUE, data |-> NoneValue,
                                           log |-> log] } })
                 [] self.func_def.kind = "Name" -> internal_err(log) )
      [] self.variant = "GroupingSet" ->
             ( CASE self.grouping_set.kind \in {"Rollup", "Cube"} ->
                        Only({ IF ~exprs.ok THEN exprs
                               ELSE [exprs EXCEPT !.data =
                                        [variant |-> "GroupingSet",
                                         grouping_set |-> [kind |-> self.grouping_set.kind,
                                                           exprs |-> exprs.data]]]
                               : exprs \in {transform_vec(self.grouping_set.exprs,
                                                          transform, log)} })
                 [] self.grouping_set.kind = "GroupingSets" ->
                        Only({ IF ~lists.ok THEN lists
                               ELSE [lists EXCEPT !.data =
                                        [variant |-> "GroupingSet",
                                         grouping_set |-> [kind |-> "GroupingSets",
                                                           lists_of_exprs |-> lists.data]]]
                               : lists \in {transform_lists(
                                                self.grouping_set.lists_of_exprs, 1,
                                                transform, log)} }) )
      [] self.variant = "InList" ->
             construct("InList", <<"expr", "list", "negated">>,
                       <<Boxed(self.expr), Vec(self.list), Moved(self.negated)>>,
                       transform, log)
      [] self.variant = "GetIndexedField" ->
             construct("GetIndexedField", <<"expr", "field">>,
                       <<Boxed(self.expr), Moved(self.field)>>, transform, log)

\* ------------------------------------------------------------------------
\* handle_transform_recursion!($F_DOWN, $F_SELF, $F_UP); pre_visited is the
\* value of $F_DOWN before the `?`.
\* ------------------------------------------------------------------------
\* (mutant: after a Jump of f_down the children are still rewritten)
handle_transform_recursion_jump_descends(pre_visited, f_self, f_up) ==
    IF ~pre_visited.ok THEN pre_visited
    ELSE IF pre_visited.tnr = Stop THEN pre_visited
    ELSE Only({ IF ~post_visited.ok THEN post_visited
                ELSE [post_visited EXCEPT !.transformed = @ \/ pre_visited.transformed]
                : post_visited \in {
                    Only({ IF ~m.ok THEN m ELSE try_transform_node_with(m, f_up, Jump)
                           : m \in {map_children(pre_visited.data, f_self,
                                                 pre_visited.log)} }) } })

\* (mutant: after a Jump of f_down, f_up is not called on the node)
handle_transform_recursion_jump_skips_f_up(pre_visited, f_self, f_up) ==
    IF ~pre_visited.ok THEN pre_visited
    ELSE CASE pre_visited.tnr = Continue ->
                 Only({ IF ~m.ok THEN m
                        ELSE Only({ IF ~t.ok THEN t
                                    ELSE [t EXCEPT !.transformed =
                                                       @ \/ pre_visited.transformed]
                                    : t \in {try_transform_node_with(m, f_up, Jump)} })
                        : m \in {map_children(pre_visited.data, f_self,
                                              pre_visited.log)} })
           [] pre_visited.tnr = Jump -> [pre_visited EXCEPT !.tnr = Continue]
           [] pre_visited.tnr = Stop -> pre_visited

\* (mutant: the flag of pre_visited is lost)
handle_transform_recursion_flag_lost(pre_visited, f_self, f_up) ==
    IF ~pre_visited.ok THEN pre_visited
    ELSE CASE pre_visited.tnr = Continue ->
                 Only({ IF ~m.ok THEN m ELSE try_transform_node_with(m, f_up, Jump)
                        : m \in {map_children(pre_visited.data, f_self,
                                              pre_visited.log)} })
           [] pre_visited.tnr = Jump -> call(f_up, pre_visited.data, pre_visited.log)
           [] pre_visited.tnr = Stop -> pre_visited

handle_transform_recursion(pre_visited, f_self, f_up) ==
    IF ~pre_visited.ok THEN pre_visited
    ELSE IF pre_visited.tnr = Stop THEN pre_visited
    ELSE Only({ IF ~post_visited.ok THEN post_visited
                ELSE [post_visited EXCEPT !.transformed = @ \/ pre_visited.transformed]
                : post_visited \in {
                    CASE pre_visited.tnr = Continue ->
                           Only({ IF ~m.ok THEN m
                                  ELSE try_transform_node_with(m, f_up, Jump)
                                  : m \in {map_children(pre_visited.data, f_self,
                                                        pre_visited.log)} })
                      [] pre_visited.tnr = Jump ->
                           call(f_up, pre_visited.data, pre_visited.log) } })

\* ------------------------------------------------------------------------
\* TreeNode::rewrite
\* ------------------------------------------------------------------------
rewrite(self, rewriter, log) ==
    handle_transform_recursion(TestRewriter_f(rewriter, "f_down", self, log),
                               Closure("rewrite", rewriter),
                               RewriterFn(rewriter, "f_up"))

\* ------------------------------------------------------------------------
\* TreeNode::transform_down and transform_down_mut
\* ------------------------------------------------------------------------
\* (mutant: a Jump of f stays Jump on the way to the parent)
transform_down_keeps_jump(self, f, log) ==
    Only({ IF ~r.ok THEN r
           ELSE try_transform_node_with(
                    r, Closure("map_children", Closure("transform_down", f)), Jump)
           : r \in {call(f, self, log)} })

transform_down(self, f, log) ==
    Only({ IF ~r.ok THEN r
           ELSE try_transform_node_with(
                    r, Closure("map_children", Closure("transform_down", f)), Continue)
           : r \in {call(f, self, log)} })

transform_down_mut(self, f, log) ==
    Only({ IF ~r.ok THEN r
           ELSE try_transform_node_with(
                    r, Closure("map_children", Closure("transform_down_mut", f)),
                    Continue)
           : r \in {call(f, self, log)} })

\* ------------------------------------------------------------------------
\* TreeNode::transform_up, transform_up_mut and transform
\* ------------------------------------------------------------------------
\* (mutant: a Jump coming out of the children is absorbed at the node)
transform_up_absorbs_jump(self, f, log) ==
    Only({ IF ~m.ok THEN m ELSE try_transform_node_with(m, f, Continue)
           : m \in {map_children(self, Closure("transform_up", f), log)} })

transform_up(self, f, log) ==
    Only({ IF ~m.ok THEN m ELSE try_transform_node_with(m, f, Jump)
           : m \in {map_children(self, Closure("transform_up", f), log)} })

\* (mutant: a Jump coming out of the children becomes Stop)
transform_up_mut_jump_stops(self, f, log) ==
    Only({ IF ~m.ok THEN m ELSE try_transform_node_with(m, f, Stop)
           : m \in {map_children(self, Closure("transform_up_mut", f), log)} })

transform_up_mut(self, f, log) ==
    Only({ IF ~m.ok THEN m ELSE try_transform_node_with(m, f, Jump)
           : m \in {map_children(self, Closure("transform_up_mut", f), log)} })

transform(self, f, log) == transform_up(self, f, log)

\* ------------------------------------------------------------------------
\* TreeNode::transform_down_up
\* ------------------------------------------------------------------------
\* (mutant: f_down is not applied)
transform_down_up_skips_f_down(self, f_down, f_up, log) ==
    handle_transform_recursion(Transformed_no(self, log),
                               Closure2("transform_down_up", f_down, f_up),
                               f_up)

transform_down_up(self, f_down, f_up, log) ==
    handle_transform_recursion(call(f_down, self, log),
                               Closure2("transform_down_up", f_down, f_up),
                               f_up)

\* ------------------------------------------------------------------------
\* F(x): the body of each closure
\* ------------------------------------------------------------------------
call(F, x, log) ==
    CASE F.kind = "TestVisitor" -> TestVisitor_f(F.cb, F.f, x, log)
      [] F.kind = "TestRewriter" -> TestRewriter_f(F.cb, F.f, x, log)
      [] F.kind = "FnMut(Self) -> Result<Self>" -> Transform_f(F.cb, F.f, x, log)
      [] F.kind = "visit" -> visit(x, F.f, log)
      [] F.kind = "apply" -> apply(x, F.f, log)
      [] F.kind = "rewrite" -> rewrite(x, F.f, log)
      [] F.kind = "transform_down" -> transform_down(x, F.f, log)
      [] F.kind = "transform_down_mut" -> transform_down_mut(x, F.f, log)
      [] F.kind = "transform_up" -> transform_up(x, F.f, log)
      [] F.kind = "transform_up_mut" -> transform_up_mut(x, F.f, log)
      [] F.kind = "transform_down_up" -> transform_down_up(x, F.f_down, F.f_up, log)
      [] F.kind = "map_children" -> map_children(x, F.f, log)
      [] F.kind = "Self { children, ..self }" ->
             [ok |-> TRUE, data |-> [F.self EXCEPT !.children = x], log |-> log]
      [] F.kind = "with_new_arc_children" ->
             with_new_arc_children(F.self, F.self, x, Rebuilt(log, F.self, x))
      [] F.kind = "with_new_children" ->
             with_new_children(F.new_self, x, Rebuilt(log, F.self, x))

\* ------------------------------------------------------------------------
\* Inputs.  Trees: every ordered tree of at most MaxNodes nodes of each node
\* type, and the tree of the tests; nodes are named 1, 2, ... in pre-order.
\* Callbacks: they report Continue and leave the node alone except at a few
\* places (the events: at most MaxEvents on the small trees, MaxTestEvents
\* on the tree of the tests), where a callback reports something else,
\* changes the node or fails, or where the reconstruction of a node fails.
\* ------------------------------------------------------------------------
RECURSIVE TreesOf(_, _, _)
RECURSIVE ForestsOf(_, _, _)
TreesOf(n, base, ty) ==
    { Node(ty, cs, Data(base), FALSE) : cs \in ForestsOf(n - 1, base + 1, ty) }

ForestsOf(m, base, ty) ==
    IF m = 0 THEN { <<>> }
    ELSE UNION { { <<t>> \o rest : t \in TreesOf(k, base, ty),
                                   rest \in ForestsOf(m - k, base + k, ty) }
                 : k \in 1..m }

\* test_tree(): J(1) -> I(2) -> F(3) -> { E(4) -> C(5) -> { B(6), D(7) -> A(8) },
\*                                        G(9) -> H(10) }
test_tree ==
    LET node_a == TestTreeNode_new(<<>>, Data(8))
        node_b == TestTreeNode_new(<<>>, Data(6))
        node_d == TestTreeNode_new(<<node_a>>, Data(7))
        node_c == TestTreeNode_new(<<node_b, node_d>>, Data(5))
        node_e == TestTreeNode_new(<<node_c>>, Data(4))
        node_h == TestTreeNode_new(<<>>, Data(10))
        node_g == TestTreeNode_new(<<node_h>>, Data(9))
        node_f == TestTreeNode_new(<<node_e, node_g>>, Data(3))
        node_i == TestTreeNode_new(<<node_f>>, Data(2))
    IN  TestTreeNode_new(<<node_i>>, Data(1))

\* A tree to traverse and the number of events allowed on it
Shapes(tys) ==
    { [tree |-> t, events |-> MaxEvents]
        : t \in UNION { TreesOf(n, 1, ty) : n \in 1..MaxNodes, ty \in tys } }
      \cup { [tree |-> test_tree, events |-> MaxTestEvents] }

RECURSIVE Size(_)
RECURSIVE SizeAll(_)
Size(node) == 1 + SizeAll(node.children)

SizeAll(nodes) ==
    IF nodes = <<>> THEN 0 ELSE Size(Head(nodes)) + SizeAll(Tail(nodes))

\* Mark the nodes whose reconstruction fails
RECURSIVE Frail(_, _)
Frail(node, failing) ==
    [node EXCEPT !.frail = (node.data.name \in failing),
                 !.children = [i \in 1..Len(node.children) |->
                                  Frail(node.children[i], failing)]]

Unchanged == Resp(Continue, FALSE, FALSE)

Responses ==
    { Resp(t, c, FALSE) : t \in TreeNodeRecursion, c \in BOOLEAN }
        \cup { Resp(Continue, FALSE, TRUE) }

\* The callbacks of a visitor / rewriter: Unchanged at every node but the events
Callbacks(names, ev) ==
    [f \in {"f_down", "f_up"} |->
        [n \in names |-> IF <<f, n>> \in DOMAIN ev THEN ev[<<f, n>>] ELSE Unchanged]]

\* The events on a tree of the given names: at most `max` places among the
\* callbacks fs of the nodes, each with one of the responses rs
Events(names, fs, rs, max) ==
    UNION { [S -> rs \ {Unchanged}]
            : S \in { S \in SUBSET (fs \X names) : Cardinality(S) <= max } }

\* The nodes whose reconstruction fails; a TestTreeNode is rebuilt by a
\* struct expression, which cannot fail
FailingSets(shape, ev) ==
    IF shape.tree.ty = TestTreeNode THEN { {} }
    ELSE { S \in SUBSET (1..Size(shape.tree))
             : Cardinality(S) + Cardinality(DOMAIN ev) <= shape.events }

\* ------------------------------------------------------------------------
\* State: the last call of an entry point and what it returned
\* ------------------------------------------------------------------------
VARIABLES pc, fn, input, cb, result
vars == <<pc, fn, input, cb, result>>

None == [ok |-> FALSE, err |-> "none", log |-> EmptyLog]

Init ==
    /\ pc = "idle"
    /\ fn = "none"
    /\ input = <<>>
    /\ cb = <<>>
    /\ result = None

NamesOf(tree) == 1..Size(tree)

\* The events of a read-only traversal that uses the callbacks fs: a signal
\* or a failure, never a change
VisitEvents(shape, fs) ==
    Events(NamesOf(shape.tree), fs, { r \in Responses : ~r.changed }, shape.events)

\* The events of a rewriting traversal that uses the callbacks fs
RewriteEvents(shape, fs) ==
    Events(NamesOf(shape.tree), fs, Responses, shape.events)

\* The entry point f was called on `in` with the callbacks c and returned r
Returned(f, in, c, r) ==
    /\ pc' = "done"
    /\ fn' = f
    /\ input' = in
    /\ cb' = c
    /\ result' = r

\* A test builds its tree (let tree = test_tree();) before it calls a
\* traversal on it
BuildTree ==
    /\ pc = "idle"
    /\ \E shape \in Shapes(NodeTypes) :
         /\ pc' = "built"
         /\ input' = shape.tree
         /\ UNCHANGED <<fn, cb, result>>

\* The tree that was built, if it is of one of the types tys, with the
\* number of events allowed on it
Built(tys) == { sh \in Shapes(tys) : sh.tree = input }

Visit ==
    /\ pc = "built"
    /\ \E shape \in Built({TestTreeNode}) :
         \E ev \in VisitEvents(shape, {"f_down", "f_up"}) :
           LET c == Callbacks(NamesOf(shape.tree), ev)
           IN  Returned("visit", shape.tree, c,
                        visit(shape.tree, c, EmptyLog))

Apply ==
    /\ pc = "built"
    /\ \E shape \in Built({TestTreeNode}) :
         \E ev \in VisitEvents(shape, {"f_down"}) :
           LET c == Callbacks(NamesOf(shape.tree), ev)
           IN  Returned("apply", shape.tree, c,
                        apply(shape.tree,
                              VisitorFn(c, "f_down"),
                              EmptyLog))

\* rewrite, transform_down and transform_up are called on trees of the three
\* implementations of map_children; transform_down_up, transform_down_mut,
\* transform_up_mut and transform, which differ from them only in how they
\* take their closures, on TestTreeNode trees, as the tests call them.
Rewrite ==
    /\ pc = "built"
    /\ \E shape \in Built(NodeTypes) :
         \E ev \in RewriteEvents(shape, {"f_down", "f_up"}) :
           \E failing \in FailingSets(shape, ev) :
             LET c == Callbacks(NamesOf(shape.tree), ev)
                 tree == Frail(shape.tree, failing)
             IN  Returned("rewrite", tree, c,
                          rewrite(tree, c, EmptyLog))

TransformDownUp ==
    /\ pc = "built"
    /\ \E shape \in Built({TestTreeNode}) :
         \E ev \in RewriteEvents(shape, {"f_down", "f_up"}) :
           \E failing \in FailingSets(shape, ev) :
             LET c == Callbacks(NamesOf(shape.tree), ev)
                 tree == Frail(shape.tree, failing)
             IN  Returned("transform_down_up", tree, c,
                          transform_down_up(
                              tree,
                              RewriterFn(c, "f_down"),
                              RewriterFn(c, "f_up"),
                              EmptyLog))

TransformDown ==
    /\ pc = "built"
    /\ \E shape \in Built(NodeTypes) :
         \E ev \in RewriteEvents(shape, {"f_down"}) :
           \E failing \in FailingSets(shape, ev) :
             LET c == Callbacks(NamesOf(shape.tree), ev)
                 tree == Frail(shape.tree, failing)
             IN  Returned("transform_down", tree, c,
                          transform_down(tree,
                              RewriterFn(c, "f_down"),
                              EmptyLog))

TransformDownMut ==
    /\ pc = "built"
    /\ \E shape \in Built({TestTreeNode}) :
         \E ev \in RewriteEvents(shape, {"f_down"}) :
           \E failing \in FailingSets(shape, ev) :
             LET c == Callbacks(NamesOf(shape.tree), ev)
                 tree == Frail(shape.tree, failing)
             IN  Returned("transform_down_mut", tree, c,
                          transform_down_mut(tree,
                              RewriterFn(c, "f_down"),
                              EmptyLog))

TransformUp ==
    /\ pc = "built"
    /\ \E shape \in Built(NodeTypes) :
         \E ev \in RewriteEvents(shape, {"f_up"}) :
           \E failing \in FailingSets(shape, ev) :
             LET c == Callbacks(NamesOf(shape.tree), ev)
                 tree == Frail(shape.tree, failing)
             IN  Returned("transform_up", tree, c,
                          transform_up(tree,
                              RewriterFn(c, "f_up"),
                              EmptyLog))

TransformUpMut ==
    /\ pc = "built"
    /\ \E shape \in Built({TestTreeNode}) :
         \E ev \in RewriteEvents(shape, {"f_up"}) :
           \E failing \in FailingSets(shape, ev) :
             LET c == Callbacks(NamesOf(shape.tree), ev)
                 tree == Frail(shape.tree, failing)
             IN  Returned("transform_up_mut", tree, c,
                          transform_up_mut(tree,
                              RewriterFn(c, "f_up"),
                              EmptyLog))

Transform ==
    /\ pc = "built"
    /\ \E shape \in Built({TestTreeNode}) :
         \E ev \in RewriteEvents(shape, {"f_up"}) :
           \E failing \in FailingSets(shape, ev) :
             LET c == Callbacks(NamesOf(shape.tree), ev)
                 tree == Frail(shape.tree, failing)
             IN  Returned("transform", tree, c,
                          transform(tree,
                              RewriterFn(c, "f_up"),
                              EmptyLog))

\* The sibling aggregator called on its own, on a sequence of trees, with an
\* operation that is invoked on each element (the root of each tree)
RootNames(items) == { items[i].data.name : i \in 1..Len(items) }

MapUntilStopAndCollect ==
    /\ pc = "idle"
    /\ \E items \in UNION { ForestsOf(m, 1, TestTreeNode) : m \in 0..MaxNodes } :
         \E ev \in Events(RootNames(items), {"f_down"}, Responses, MaxEvents) :
           LET c == Callbacks(1..SizeAll(items), ev)
           IN  Returned("map_until_stop_and_collect", items, c,
                        map_until_stop_and_collect(
                            items,
                            RewriterFn(c, "f_down"),
                            EmptyLog))

\* The macro called on the pairs of an expression and a transformation: the
\* expressions are trees, and the transformations are two closures that take
\* turns, each doing at each expression one of the things a callback can do
TransformationOf(i) == IF i % 2 = 1 THEN "f_down" ELSE "f_up"

PairsOf(items, c) ==
    [i \in 1..Len(items) |-> Pair(items[i], RewriterFn(c, TransformationOf(i)))]

PairEvents(items) ==
    UNION { [S -> Responses \ {Unchanged}]
            : S \in { S \in SUBSET { <<TransformationOf(i), items[i].data.name>>
                                        : i \in 1..Len(items) }
                       : Cardinality(S) <= MaxEvents } }

MapUntilStopAndCollectMacro ==
    /\ pc = "idle"
    /\ \E items \in UNION { ForestsOf(m, 1, TestTreeNode) : m \in 0..MaxNodes } :
         \E ev \in PairEvents(items) :
           LET c == Callbacks(1..SizeAll(items), ev)
           IN  Returned("map_until_stop_and_collect!", items, c,
                        map_until_stop_and_collect_macro(PairsOf(items, c), EmptyLog))

\* TreeNode::map_children called on its own, on a node of each of the three
\* implementations, with an operation that is invoked on the children of the
\* node; the reconstruction of the node may fail
MapChildren ==
    /\ pc = "built"
    /\ \E shape \in Built(NodeTypes) :
         \E ev \in Events(RootNames(shape.tree.children), {"f_down"}, Responses,
                          shape.events) :
           \E failing \in { S \in FailingSets(shape, ev) : S \subseteq {1} } :
             LET c == Callbacks(NamesOf(shape.tree), ev)
                 tree == Frail(shape.tree, failing)
             IN  Returned("map_children", tree, c,
                          map_children(tree, RewriterFn(c, "f_down"), EmptyLog))

\* LogicalPlan::map_children called on its own, on every small plan, with a
\* transform that returns an input as it is, returns another plan or fails;
\* the reconstruction of the plan may fail
PlanResponses == { r \in Responses : r.tnr = Continue }

LogicalPlanMapChildren ==
    /\ pc = "idle"
    /\ \E plan \in UNION { TreesOf(n, 1, LogicalPlan) : n \in 1..MaxNodes } :
         \E ev \in Events(RootNames(plan.children), {"f_down"}, PlanResponses,
                          MaxEvents) :
           \E failing \in SUBSET {1} :
             LET c == Callbacks(NamesOf(plan), ev)
                 self == Frail(plan, failing)
             IN  Returned("LogicalPlan::map_children", self, c,
                          map_children_logical_plan(self, TransformFn(c, "f_down"),
                                                    EmptyLog))

\* The expressions: one or more of each variant.  The child expressions are
\* columns, each with a name of its own; a Vec of them is empty or has two;
\* an Option is None or Some.  The fields that are not expressions have a
\* value each, and a flag that is not false by default
column(n) == Node("Expr", <<>>, Data(n), FALSE)

Vecs(base) == { <<>>, <<column(base), column(base + 1)>> }

Options(v) == { NoneValue, Some(v) }

FuncDefs == { [kind |-> k, fun |-> "fun"] : k \in {"BuiltIn", "UDF", "Name"} }

Exprs ==
    { [variant |-> v, expr |-> column(1)]
        : v \in {"Not", "IsNotNull", "IsNull", "IsTrue", "IsFalse", "IsUnknown",
                 "IsNotTrue", "IsNotFalse", "IsNotUnknown", "Negative"} }
    \cup { [variant |-> "Alias", expr |-> column(1), relation |-> "relation",
            name |-> "name"] }
    \cup { [variant |-> v, expr |-> column(1), data_type |-> "data_type"]
             : v \in {"Cast", "TryCast"} }
    \cup { [variant |-> "Sort", expr |-> column(1), asc |-> TRUE, nulls_first |-> TRUE] }
    \cup { [variant |-> "InSubquery", expr |-> column(1), subquery |-> "subquery",
            negated |-> TRUE] }
    \cup { [variant |-> v, value |-> "value"] : v \in LeafVariants }
    \cup { [variant |-> "BinaryExpr", left |-> column(1), op |-> "op",
            right |-> column(2)] }
    \cup { [variant |-> v, negated |-> TRUE, expr |-> column(1), pattern |-> column(2),
            escape_char |-> "escape_char", case_insensitive |-> TRUE]
             : v \in {"Like", "SimilarTo"} }
    \cup { [variant |-> "Between", expr |-> column(1), negated |-> TRUE,
            low |-> column(2), high |-> column(3)] }
    \cup { [variant |-> "Case", expr |-> e, when_then_expr |-> w, else_expr |-> l]
             : e \in Options(column(1)),
               w \in { << <<column(2), column(3)>> >>,
                       << <<column(2), column(3)>>, <<column(4), column(5)>> >> },
               l \in Options(column(6)) }
    \cup { [variant |-> "ScalarFunction", func_def |-> d, args |-> a]
             : d \in FuncDefs, a \in Vecs(1) }
    \cup { [variant |-> "WindowFunction", fun |-> "fun", args |-> a, partition_by |-> b,
            order_by |-> o, window_frame |-> "window_frame"]
             : a \in Vecs(1), b \in Vecs(3), o \in Vecs(5) }
    \cup { [variant |-> "AggregateFunction", func_def |-> d, args |-> a, distinct |-> t,
            filter |-> f, order_by |-> o]
             : d \in FuncDefs, a \in Vecs(1), t \in BOOLEAN, f \in Options(column(3)),
               o \in { NoneValue } \cup { Some(v) : v \in Vecs(4) } }
    \cup { [variant |-> "GroupingSet", grouping_set |-> [kind |-> k, exprs |-> a]]
             : k \in {"Rollup", "Cube"}, a \in Vecs(1) }
    \cup { [variant |-> "GroupingSet",
            grouping_set |-> [kind |-> "GroupingSets", lists_of_exprs |-> l]]
             : l \in { <<>>, << <<column(1)>>, <<column(2), column(3)>> >> } }
    \cup { [variant |-> "InList", expr |-> column(1), list |-> l, negated |-> TRUE]
             : l \in Vecs(2) }
    \cup { [variant |-> "GetIndexedField", expr |-> column(1), field |-> f]
             : f \in { [access |-> "ListIndex", key |-> column(2)],
                       [access |-> "ListRange", start |-> column(2), stop |-> column(3)],
                       [access |-> "NamedStructField", name |-> "name"] } }

\* The names of the child expressions of an expression
ColumnsOf(expr) == RootNames(flatten(visit_children_parts(expr)))

\* Expr::visit_children called on its own, with a callback that reports
\* Continue, reports Stop or fails
ExprVisitChildren ==
    /\ pc = "idle"
    /\ \E expr \in Exprs :
         \E ev \in Events(ColumnsOf(expr), {"f_down"},
                          { Resp(Stop, FALSE, FALSE), Resp(Continue, FALSE, TRUE) },
                          MaxEvents) :
           LET c == Callbacks(ColumnsOf(expr), ev)
           IN  Returned("Expr::visit_children", expr, c,
                        visit_children(expr, VisitorFn(c, "f_down"), EmptyLog))

\* Expr::map_children called on its own, with a transform that returns a
\* child as it is, returns another expression or fails
ExprMapChildren ==
    /\ pc = "idle"
    /\ \E expr \in Exprs :
         \E ev \in Events(ColumnsOf(expr), {"f_down"}, PlanResponses, MaxEvents) :
           LET c == Callbacks(ColumnsOf(expr), ev)
           IN  Returned("Expr::map_children", expr, c,
                        map_children_expr(expr, TransformFn(c, "f_down"), EmptyLog))

\* Transformed::try_transform_node, which is public, called on its own: on
\* an envelope of a node with each flag and each signal, and with a closure
\* f that does one of the things a callback can do
TryTransformNode ==
    /\ pc = "idle"
    /\ \E transformed \in BOOLEAN :
         \E tnr \in TreeNodeRecursion :
           \E r \in Responses :
             LET c == Callbacks({1}, (<<"f_down", 1>> :> r))
                 self == Transformed_new(TestTreeNode_new(<<>>, Data(1)),
                                         transformed, tnr, EmptyLog)
             IN  Returned("try_transform_node", [self |-> self], c,
                          try_transform_node(self, RewriterFn(c, "f_down")))

\* rewrite on trees whose reconstruction can fail (with_new_children and
\* with_new_arc_children return a Result), with an f_down that changes some
\* nodes and reports Jump at one node at most, and a reconstruction that
\* fails at one node
RewriteFrail ==
    /\ pc = "built"
    /\ \E shape \in { sh \in Shapes({ConcreteTreeNode, ArcDynTreeNode})
                        : sh.tree.ty # TestTreeNode /\ sh.tree = input } :
         \E jump \in { S \in SUBSET NamesOf(shape.tree) : Cardinality(S) <= 1 } :
           \E changed \in { S \in SUBSET NamesOf(shape.tree)
                               : Cardinality(S) <= shape.events } :
             \E failing \in NamesOf(shape.tree) :
               LET ev == [e \in {"f_down"} \X (jump \cup changed) |->
                             Resp(IF e[2] \in jump THEN Jump ELSE Continue,
                                  e[2] \in changed, FALSE)]
                   c == Callbacks(NamesOf(shape.tree), ev)
                   tree == Frail(shape.tree, {failing})
               IN  Returned("rewrite", tree, c, rewrite(tree, c, EmptyLog))

\* Transformed::try_transform_node_with called on its own: on an envelope
\* of a node with each flag and each signal, with each return_if_jump, and
\* with a closure f that does one of the things a callback can do
TryTransformNodeWith ==
    /\ pc = "idle"
    /\ \E transformed \in BOOLEAN :
         \E tnr \in TreeNodeRecursion, return_if_jump \in TreeNodeRecursion :
           \E r \in Responses :
             LET c == Callbacks({1}, (<<"f_down", 1>> :> r))
                 self == Transformed_new(TestTreeNode_new(<<>>, Data(1)),
                                         transformed, tnr, EmptyLog)
             IN  Returned("try_transform_node_with",
                          [self |-> self, return_if_jump |-> return_if_jump], c,
                          try_transform_node_with(self, RewriterFn(c, "f_down"),
                                                  return_if_jump))

\* ------------------------------------------------------------------------
\* The tests of the rewriting traversals (rewrite_test!, transform_test!,
\* transform_down_test!, transform_up_test!): on test_tree(), every closure
\* is transform_yes(f), which renames the node it gets and reports
\* transformed = true, but for transform_and_event_on(f, d, event), which
\* renames the node as well and reports `event` at the node d.
\* ------------------------------------------------------------------------
name_of ==
    [j |-> 1, i |-> 2, f |-> 3, e |-> 4, c |-> 5, b |-> 6, d |-> 7, a |-> 8,
     g |-> 9, h |-> 10]

transform_yes == Resp(Continue, TRUE, FALSE)

transform_and_event_on(event) == Resp(event, TRUE, FALSE)

TestCallbacks(ev) ==
    [f \in {"f_down", "f_up"} |->
        [n \in NamesOf(test_tree) |->
            IF <<f, n>> \in DOMAIN ev THEN ev[<<f, n>>] ELSE transform_yes]]

TestEvents(fs) ==
    Events(NamesOf(test_tree), fs,
           { transform_and_event_on(event) : event \in {Jump, Stop} },
           MaxTestEvents)

RewriteTest ==
    /\ pc = "built" /\ input = test_tree
    /\ \E ev \in TestEvents({"f_down", "f_up"}) :
         LET c == TestCallbacks(ev)
         IN  Returned("rewrite", test_tree, c, rewrite(test_tree, c, EmptyLog))

TransformTest ==
    /\ pc = "built" /\ input = test_tree
    /\ \E ev \in TestEvents({"f_down", "f_up"}) :
         LET c == TestCallbacks(ev)
         IN  Returned("transform_down_up", test_tree, c,
                      transform_down_up(test_tree,
                                        RewriterFn(c, "f_down"),
                                        RewriterFn(c, "f_up"),
                                        EmptyLog))

TransformDownTest ==
    /\ pc = "built" /\ input = test_tree
    /\ \E ev \in TestEvents({"f_down"}) :
         LET c == TestCallbacks(ev)
         IN  Returned("transform_down_mut", test_tree, c,
                      transform_down_mut(test_tree,
                                         RewriterFn(c, "f_down"),
                                         EmptyLog))

TransformUpTest ==
    /\ pc = "built" /\ input = test_tree
    /\ \E ev \in TestEvents({"f_up"}) :
         LET c == TestCallbacks(ev)
         IN  Returned("transform_up_mut", test_tree, c,
                      transform_up_mut(test_tree,
                                       RewriterFn(c, "f_up"),
                                       EmptyLog))

\* The caller takes the result; the next call starts afresh
Return ==
    /\ pc = "done"
    /\ pc' = "idle"
    /\ fn' = "none"
    /\ input' = <<>>
    /\ cb' = <<>>
    /\ result' = None

Next ==
    \/ BuildTree
    \/ Visit
    \/ Apply
    \/ Rewrite
    \/ TransformDownUp
    \/ TransformDown
    \/ TransformDownMut
    \/ TransformUp
    \/ TransformUpMut
    \/ Transform
    \/ MapUntilStopAndCollect
    \/ MapUntilStopAndCollectMacro
    \/ MapChildren
    \/ LogicalPlanMapChildren
    \/ ExprVisitChildren
    \/ ExprMapChildren
    \/ TryTransformNodeWith
    \/ TryTransformNode
    \/ RewriteFrail
    \/ RewriteTest
    \/ TransformTest
    \/ TransformDownTest
    \/ TransformUpTest
    \/ Return

Spec == Init /\ [][Next]_vars

\* ------------------------------------------------------------------------
\* visit and apply, one step at a time.  A call in progress is the stack of
\* its frames, one per node being visited, the innermost last; a frame is at
\* the call of f_down, in the loop of apply_children before child i with the
\* loop's tnr, or at the call of f_up.  ret is the signal a frame that
\* returned hands to its caller.  The program is sequential: a call in
\* progress always takes its next step.
\* ------------------------------------------------------------------------
Frame(node) == [node |-> node, at |-> "f_down", i |-> 1, tnr |-> Continue]

Running(stack, ret, log) == [stack |-> stack, ret |-> ret, log |-> log]

Top == result.stack[Len(result.stack)]

Popped == SubSeq(result.stack, 1, Len(result.stack) - 1)

\* The innermost frame goes on as the frame t
TopIs(t) == [result.stack EXCEPT ![Len(result.stack)] = t]

Goes(stack, ret, log) ==
    /\ pc' = "running"
    /\ result' = Running(stack, ret, log)
    /\ UNCHANGED <<fn, input, cb>>

Ends(r) ==
    /\ pc' = "done"
    /\ result' = r
    /\ UNCHANGED <<fn, input, cb>>

Called(f, in, c) ==
    /\ pc' = "running"
    /\ fn' = f
    /\ input' = in
    /\ cb' = c
    /\ result' = Running(<<Frame(in)>>, "none", EmptyLog)

CallVisit ==
    /\ pc = "idle"
    /\ \E shape \in Shapes({TestTreeNode}) :
         \E ev \in VisitEvents(shape, {"f_down", "f_up"}) :
           Called("visit", shape.tree, Callbacks(NamesOf(shape.tree), ev))

CallApply ==
    /\ pc = "idle"
    /\ \E shape \in Shapes({TestTreeNode}) :
         \E ev \in VisitEvents(shape, {"f_down"}) :
           Called("apply", shape.tree, Callbacks(NamesOf(shape.tree), ev))

\* visitor.f_down(self)? and the match on it in visit; f(self)? and
\* handle_visit_recursion!(.., DOWN) in apply
PreNode ==
    /\ pc = "running" /\ result.ret = "none" /\ result.stack # <<>>
    /\ Top.at = "f_down"
    /\ LET r == TestVisitor_f(cb, "f_down", Top.node, result.log)
           h == handle_visit_recursion(r.tnr, "DOWN")
       IN  IF ~r.ok THEN Ends(r)
           ELSE IF fn = "visit"
           THEN CASE r.tnr = Continue ->
                       Goes(TopIs([Top EXCEPT !.at = "children"]), "none", r.log)
                  [] r.tnr = Jump ->
                       Goes(TopIs([Top EXCEPT !.at = "f_up"]), "none", r.log)
                  [] r.tnr = Stop -> Goes(Popped, Stop, r.log)
           ELSE IF h.ret THEN Goes(Popped, h.tnr, r.log)
                ELSE Goes(TopIs([Top EXCEPT !.at = "children"]), "none", r.log)

\* apply_children: f(child) is called, which is visit or apply on the child
Descend ==
    /\ pc = "running" /\ result.ret = "none" /\ result.stack # <<>>
    /\ Top.at = "children" /\ Top.i <= Len(Top.node.children)
    /\ Goes(Append(result.stack, Frame(Top.node.children[Top.i])), "none", result.log)

\* (mutant: the loop of apply_children does not advance to the next child)
ChildReturned_same_child ==
    /\ pc = "running" /\ result.ret # "none" /\ result.stack # <<>>
    /\ LET h == handle_visit_recursion(result.ret, "NONE")
       IN  IF h.ret
           THEN Goes(TopIs([Top EXCEPT !.tnr = h.tnr,
                                       !.i = Len(Top.node.children) + 1]),
                     "none", result.log)
           ELSE Goes(TopIs([Top EXCEPT !.tnr = result.ret]), "none", result.log)

\* apply_children: tnr = f(child)?; handle_visit_recursion!(tnr): a Stop
\* leaves the loop, Continue and Jump go on with the next child
ChildReturned ==
    /\ pc = "running" /\ result.ret # "none" /\ result.stack # <<>>
    /\ LET h == handle_visit_recursion(result.ret, "NONE")
       IN  IF h.ret
           THEN Goes(TopIs([Top EXCEPT !.tnr = h.tnr,
                                       !.i = Len(Top.node.children) + 1]),
                     "none", result.log)
           ELSE Goes(TopIs([Top EXCEPT !.tnr = result.ret, !.i = Top.i + 1]),
                     "none", result.log)

\* apply_children returned its tnr: visit handles it with
\* handle_visit_recursion!(.., UP) and goes on to f_up, apply returns it
ChildrenDone ==
    /\ pc = "running" /\ result.ret = "none" /\ result.stack # <<>>
    /\ Top.at = "children" /\ Top.i > Len(Top.node.children)
    /\ LET h == handle_visit_recursion(Top.tnr, "UP")
       IN  IF fn = "visit"
           THEN IF h.ret THEN Goes(Popped, h.tnr, result.log)
                ELSE Goes(TopIs([Top EXCEPT !.at = "f_up"]), "none", result.log)
           ELSE Goes(Popped, Top.tnr, result.log)

\* visitor.f_up(self), whose result visit returns
PostNode ==
    /\ pc = "running" /\ result.ret = "none" /\ result.stack # <<>>
    /\ Top.at = "f_up"
    /\ LET r == TestVisitor_f(cb, "f_up", Top.node, result.log)
       IN  IF ~r.ok THEN Ends(r) ELSE Goes(Popped, r.tnr, r.log)

\* The outermost frame returned
Finish ==
    /\ pc = "running" /\ result.ret # "none" /\ result.stack = <<>>
    /\ Ends(OkTnr(result.ret, result.log))

\* A step of the call in progress
Step ==
    \/ PreNode
    \/ Descend
    \/ ChildReturned
    \/ ChildrenDone
    \/ PostNode
    \/ Finish

StepNext ==
    \/ CallVisit
    \/ CallApply
    \/ Step
    \/ Return

StepSpec == Init /\ [][StepNext]_vars /\ WF_vars(Step)


\* ------------------------------------------------------------------------
\* Reading a finished call: the callbacks it invoked, in order, and the
\* place of each node in the tree it was given
\* ------------------------------------------------------------------------
Done == pc = "done"

visits == result.log.visits

rebuilds == result.log.rebuilds

Visiting == {"visit", "apply"}

Combined == {"rewrite", "transform_down_up"}

DownOnly == {"transform_down", "transform_down_mut"}

UpOnly == {"transform_up", "transform_up_mut", "transform"}

Rewriting == Combined \cup DownOnly \cup UpOnly

\* The indexes of the invocations of callback f on node x
Idx(f, x) == { i \in 1..Len(visits) : visits[i].f = f /\ visits[i].node = x }

Invoked(f, x) == Idx(f, x) # {}

\* The callback f was invoked on x and reported tnr (it did not fail)
Reported(f, x, tnr) ==
    \E i \in Idx(f, x) : visits[i].tnr = tnr /\ ~visits[i].fail

NoNode == [ty |-> "none", children |-> <<>>]

\* The node named x among the trees `nodes`
RECURSIVE FindIn(_, _)
FindIn(nodes, x) ==
    IF nodes = <<>> THEN NoNode
    ELSE IF Head(nodes).data.name = x THEN Head(nodes)
    ELSE LET below == FindIn(Head(nodes).children, x)
         IN  IF below.ty # "none" THEN below ELSE FindIn(Tail(nodes), x)

RECURSIVE NamesIn(_)
NamesIn(nodes) ==
    IF nodes = <<>> THEN {}
    ELSE {Head(nodes).data.name} \cup NamesIn(Head(nodes).children)
             \cup NamesIn(Tail(nodes))

\* The nodes of the tree the call was given
Nodes == NamesIn(<<input>>)

ChildrenOf(x) ==
    LET cs == FindIn(<<input>>, x).children
    IN  [i \in 1..Len(cs) |-> cs[i].data.name]

DescendantsOf(x) == NamesIn(FindIn(<<input>>, x).children)

\* Every index of the log that is an invocation on x or on a descendant of x
IdxWithin(x) ==
    { i \in 1..Len(visits) : visits[i].node \in {x} \cup DescendantsOf(x) }

\* No callback reports anything but Continue, and none fails
AlwaysContinue ==
    \A f \in DOMAIN cb : \A n \in DOMAIN cb[f] :
        cb[f][n].tnr = Continue /\ ~cb[f][n].fail

RECURSIVE AnyFrail(_)
AnyFrail(nodes) ==
    IF nodes = <<>> THEN FALSE
    ELSE Head(nodes).frail \/ AnyFrail(Head(nodes).children) \/ AnyFrail(Tail(nodes))

\* ------------------------------------------------------------------------
\* C1: with callbacks that always report Continue, visit and rewrite (and
\* transform_down_up, the same macro) invoke f_down on a node before f_down
\* on any of its descendants, f_up on a node after f_up on every one of its
\* descendants, and process the children of a node in their order: every
\* callback on a child's subtree comes before every callback on the subtree
\* of a later child.  Each node gets each callback exactly once.
\* ------------------------------------------------------------------------
C1_DepthFirstOrder ==
    (Done /\ fn \in {"visit"} \cup Combined /\ AlwaysContinue /\ result.ok) =>
        /\ \A x \in Nodes :
             /\ Cardinality(Idx("f_down", x)) = 1
             /\ Cardinality(Idx("f_up", x)) = 1
             /\ \A y \in DescendantsOf(x) :
                  /\ \A i \in Idx("f_down", x), j \in Idx("f_down", y) : i < j
                  /\ \A i \in Idx("f_up", x), j \in Idx("f_up", y) : j < i
             /\ \A a, b \in 1..Len(ChildrenOf(x)) :
                  a < b => \A i \in IdxWithin(ChildrenOf(x)[a]),
                              j \in IdxWithin(ChildrenOf(x)[b]) : i < j
        /\ Len(visits) = 2 * Cardinality(Nodes)

\* A node with two children, each with its callbacks, was traversed
C1_Witness ==
    /\ Done /\ fn = "rewrite" /\ AlwaysContinue /\ result.ok
    /\ \E x \in Nodes : Len(ChildrenOf(x)) >= 2
    /\ \E x \in Nodes : DescendantsOf(x) # {} /\ x # input.data.name

\* ------------------------------------------------------------------------
\* C2: once a callback reports Stop, no callback is invoked any more: an
\* invocation that reported Stop is the last of the traversal.
\* ------------------------------------------------------------------------
C2_StopIsLast ==
    (Done /\ fn \in Visiting \cup Rewriting) =>
        \A i \in 1..Len(visits) :
            (visits[i].tnr = Stop /\ ~visits[i].fail) => i = Len(visits)

\* A callback reported Stop on a node that has nodes after it
C2_Witness ==
    /\ Done /\ fn = "transform_down"
    /\ \E i \in 1..Len(visits) :
         /\ visits[i].tnr = Stop
         /\ visits[i].node < Cardinality(Nodes)
         /\ i > 1

\* ------------------------------------------------------------------------
\* C3: Stop is never downgraded: if a callback reported Stop, the signal the
\* traversal returns is Stop.  (A traversal returns a signal when it returns
\* Ok; the ancestors of the stopping node are still rebuilt, and a
\* reconstruction that fails there makes the traversal return that Err.)
\* ------------------------------------------------------------------------
C3_StopNeverDowngraded ==
    (Done /\ fn \in Visiting \cup Rewriting) =>
        \A i \in 1..Len(visits) :
            (visits[i].tnr = Stop /\ ~visits[i].fail) =>
                /\ result.ok => result.tnr = Stop
                /\ ~result.ok => \E k \in 1..Len(rebuilds) :
                                     rebuilds[k].fail /\ rebuilds[k].after = Len(visits)

\* f_up reported Stop at a node that is not the root, after an earlier Jump
C3_Witness ==
    /\ Done /\ fn = "rewrite" /\ result.ok
    /\ \E i, j \in 1..Len(visits) :
         /\ i < j
         /\ visits[i].tnr = Jump
         /\ visits[j].tnr = Stop /\ visits[j].f = "f_up"
         /\ visits[j].node # input.data.name

\* ------------------------------------------------------------------------
\* C4: in visit, rewrite and transform_down_up, when f_down reports Jump at
\* X, no callback is invoked on a descendant of X, f_up is invoked on X right
\* after, and the rewriting forms return X with the children it had.
\* ------------------------------------------------------------------------
C4_JumpSkipsDescent ==
    (Done /\ fn \in {"visit"} \cup Combined) =>
        \A x \in Nodes :
            Reported("f_down", x, Jump) =>
                /\ \A y \in DescendantsOf(x) :
                       ~Invoked("f_down", y) /\ ~Invoked("f_up", y)
                /\ \E i \in Idx("f_down", x) : (i + 1) \in Idx("f_up", x)
                /\ (fn \in Combined /\ result.ok) =>
                       FindIn(<<result.data>>, x).children
                           = FindIn(<<input>>, x).children

\* f_down reported Jump at a node that has children and is not the root, the
\* traversal went on and returned a tree
C4_Witness ==
    /\ Done /\ fn = "rewrite" /\ result.ok
    /\ \E x \in Nodes :
         /\ Reported("f_down", x, Jump)
         /\ DescendantsOf(x) # {}
         /\ x # input.data.name
         /\ \E i \in Idx("f_up", x) : i < Len(visits)

\* ------------------------------------------------------------------------
\* C5: in visit, rewrite and transform_down_up, f_up is invoked on a node P
\* that was descended into exactly when the subtree of its last child ended
\* with Continue, that is, when f_up was invoked on the last child and
\* reported Continue.  So a Jump reported by f_up at X, or a Jump coming out
\* of the children of X, skips f_up on the parent while X is its last child;
\* it does not stop the later children of the parent (f_down is invoked on
\* the next one right away), and f_up resumes at the first ancestor whose
\* later child subtree ends with Continue.
\* ------------------------------------------------------------------------
LastChild(p) == ChildrenOf(p)[Len(ChildrenOf(p))]

C5_JumpSkipsAscent ==
    (Done /\ fn \in {"visit"} \cup Combined) =>
        /\ \A p \in Nodes :
             ( /\ Reported("f_down", p, Continue)
               /\ Len(ChildrenOf(p)) > 0
               /\ ~FindIn(<<input>>, p).frail ) =>
                 (Invoked("f_up", p) <=> Reported("f_up", LastChild(p), Continue))
        /\ \A p \in Nodes : \A k \in 1..(Len(ChildrenOf(p)) - 1) :
             Reported("f_up", ChildrenOf(p)[k], Jump) =>
                 \E i \in Idx("f_up", ChildrenOf(p)[k]) :
                     (i + 1) \in Idx("f_down", ChildrenOf(p)[k + 1])

\* f_up reported Jump at X; f_up was skipped on the parent of X, an only
\* child; a higher ancestor has a later child and f_up was invoked on it
C5_Witness ==
    /\ Done /\ fn \in {"visit", "rewrite"} /\ result.ok
    /\ \E x, p, a \in Nodes :
         /\ Reported("f_up", x, Jump)
         /\ ChildrenOf(p) = <<x>>
         /\ ~Invoked("f_up", p)
         /\ p \in DescendantsOf(a)
         /\ Len(ChildrenOf(a)) >= 2
         /\ x \in DescendantsOf(ChildrenOf(a)[1])
         /\ Invoked("f_up", a)

\* ------------------------------------------------------------------------
\* C6: the changed flag a rewriting traversal returns is the OR of the
\* changed flags of the callbacks it invoked, whatever they signalled.
\* ------------------------------------------------------------------------
C6_ChangedIsOr ==
    (Done /\ fn \in Rewriting /\ result.ok) =>
        (result.transformed <=> \E i \in 1..Len(visits) : visits[i].changed)

\* One callback changed its node, a later one reported Jump or Stop
C6_Witness ==
    /\ Done /\ fn \in Rewriting /\ result.ok /\ result.transformed
    /\ \E i, j \in 1..Len(visits) :
         /\ i < j
         /\ visits[i].changed /\ visits[i].tnr = Continue
         /\ ~visits[j].changed /\ visits[j].tnr \in {Jump, Stop}

RebuildOp ==
    IF input.ty = ArcDynTreeNode THEN "with_new_arc_children" ELSE "with_new_children"

C8_FailureAborts ==
    (Done /\ fn \in Visiting \cup Rewriting) =>
        /\ \A i \in 1..Len(visits) :
             visits[i].fail =>
                 /\ i = Len(visits)
                 /\ \A k \in 1..Len(rebuilds) : rebuilds[k].after < i
                 /\ ~result.ok
                 /\ result.err = ErrOf(visits[i].f, visits[i].node)
                 /\ DOMAIN result = {"ok", "err", "log"}
        /\ \A k \in 1..Len(rebuilds) :
             rebuilds[k].fail =>
                 /\ k = Len(rebuilds)
                 /\ Len(visits) = rebuilds[k].after
                 /\ ~result.ok
                 /\ result.err = ErrOf(RebuildOp, rebuilds[k].node)
                 /\ DOMAIN result = {"ok", "err", "log"}

\* A callback failed after another had changed a node, with nodes left
C8_Witness ==
    /\ Done /\ fn \in Combined /\ ~result.ok
    /\ \E i \in 2..Len(visits) :
         /\ visits[i].fail
         /\ visits[i - 1].changed
         /\ \E x \in Nodes : ~Invoked("f_down", x)

\* ------------------------------------------------------------------------
\* C9: rewriting with the default TreeNodeRewriter methods (both return the
\* node as it is, changed = false, Continue) returns a tree equal to the one
\* given, with changed = false.
\* ------------------------------------------------------------------------
DefaultRewriter ==
    \A f \in DOMAIN cb : \A n \in DOMAIN cb[f] : cb[f][n] = Unchanged

C9_NoOpRewrite ==
    (Done /\ fn \in Combined /\ DefaultRewriter /\ ~AnyFrail(<<input>>)) =>
        /\ result.ok
        /\ result.data = input
        /\ ~result.transformed
        /\ result.tnr = Continue

\* A ConcreteTreeNode tree with a node of two children was taken apart and
\* rebuilt
C9_Witness ==
    /\ Done /\ fn = "rewrite" /\ DefaultRewriter /\ result.ok
    /\ input.ty = ConcreteTreeNode
    /\ \E x \in Nodes : Len(ChildrenOf(x)) >= 2
    /\ Len(rebuilds) >= 1

\* ------------------------------------------------------------------------
\* C10: in map_until_stop_and_collect, when the operation reports Stop on
\* element i, it is not invoked on the elements after i, and these are in the
\* output at their places as they were.  The same holds of the later siblings
\* of a node where a callback reports Stop in a rewriting traversal.
\* ------------------------------------------------------------------------
ElementOf(x) == CHOOSE e \in 1..Len(input) : input[e].data.name = x

C10_PassThroughAfterStop ==
    /\ (Done /\ fn = "map_until_stop_and_collect") =>
         \A i \in 1..Len(visits) :
             (visits[i].tnr = Stop /\ ~visits[i].fail) =>
                 /\ result.ok
                 /\ Len(result.data) = Len(input)
                 /\ \A j \in (ElementOf(visits[i].node) + 1)..Len(input) :
                        /\ result.data[j] = input[j]
                        /\ ~Invoked("f_down", input[j].data.name)
    /\ (Done /\ fn \in Rewriting /\ result.ok) =>
         \A p \in Nodes : \A a, b \in 1..Len(ChildrenOf(p)) :
             ( /\ a < b
               /\ \E i \in IdxWithin(ChildrenOf(p)[a]) :
                      visits[i].tnr = Stop /\ ~visits[i].fail ) =>
                 /\ IdxWithin(ChildrenOf(p)[b]) = {}
                 /\ FindIn(<<result.data>>, ChildrenOf(p)[b])
                        = FindIn(<<input>>, ChildrenOf(p)[b])

\* The operation changed the first of three elements and reported Stop
C10_Witness ==
    /\ Done /\ fn = "map_until_stop_and_collect" /\ result.ok
    /\ Len(input) >= 3
    /\ \E i \in 1..Len(visits) :
         /\ visits[i].tnr = Stop /\ visits[i].changed
         /\ ElementOf(visits[i].node) < Len(input) - 1

\* ------------------------------------------------------------------------
\* The tree a test expects: the tree `node` with the data of each node x
\* wrapped in the transformations wraps[x], outermost first
\* ------------------------------------------------------------------------
RECURSIVE Renamed(_, _)
Renamed(node, wraps) ==
    [node EXCEPT !.data = [name |-> node.data.name, wraps |-> wraps[node.data.name]],
                 !.children = [k \in 1..Len(node.children) |->
                                  Renamed(node.children[k], wraps)]]

\* The callbacks invoked, in order, as <<callback, node>>
Order == [k \in 1..Len(visits) |-> <<visits[k].f, visits[k].node>>]

\* Every closure of the rewriter is transform_yes
AllTransformYes ==
    \A f \in DOMAIN cb : \A n \in DOMAIN cb[f] : cb[f][n] = transform_yes

\* ------------------------------------------------------------------------
\* C11: on the tree of the tests, J -> I -> F -> { E -> C -> { B, D -> A },
\* G -> H }, which has 10 nodes, visit and rewrite with callbacks that always
\* report Continue invoke them in the order f_down(J), f_down(I), f_down(F),
\* f_down(E), f_down(C), f_down(B), f_up(B), f_down(D), f_down(A), f_up(A),
\* f_up(D), f_up(C), f_up(E), f_down(G), f_down(H), f_up(H), f_up(G),
\* f_up(F), f_up(I), f_up(J); rewrite with renaming callbacks returns the
\* tree with the data of every node f_up(f_down(original)), changed = true
\* and Continue.
\* ------------------------------------------------------------------------
C11_Scenario ==
    /\ (Done /\ fn \in {"visit", "rewrite"} /\ input = test_tree /\ AlwaysContinue) =>
         Order = << <<"f_down", name_of.j>>, <<"f_down", name_of.i>>,
                    <<"f_down", name_of.f>>, <<"f_down", name_of.e>>,
                    <<"f_down", name_of.c>>, <<"f_down", name_of.b>>,
                    <<"f_up", name_of.b>>, <<"f_down", name_of.d>>,
                    <<"f_down", name_of.a>>, <<"f_up", name_of.a>>,
                    <<"f_up", name_of.d>>, <<"f_up", name_of.c>>,
                    <<"f_up", name_of.e>>, <<"f_down", name_of.g>>,
                    <<"f_down", name_of.h>>, <<"f_up", name_of.h>>,
                    <<"f_up", name_of.g>>, <<"f_up", name_of.f>>,
                    <<"f_up", name_of.i>>, <<"f_up", name_of.j>> >>
    /\ (Done /\ fn = "rewrite" /\ input = test_tree /\ AllTransformYes) =>
         /\ result.ok
         /\ result.data = Renamed(test_tree,
                                  [x \in NamesOf(test_tree) |-> <<"f_up", "f_down">>])
         /\ result.transformed
         /\ result.tnr = Continue

C11_TenNodes ==
    /\ C11_Scenario
    /\ (Done /\ fn \in Visiting \cup Rewriting /\ input = test_tree) =>
         Cardinality(Nodes) = 10

\* The statement with the number of nodes it gives for the tree
C11_ElevenNodes ==
    /\ C11_Scenario
    /\ (Done /\ fn \in Visiting \cup Rewriting /\ input = test_tree) =>
         Cardinality(Nodes) = 11

\* rewrite returned from the tree of the tests with transform_yes closures
C11_Witness ==
    /\ Done /\ fn = "rewrite" /\ input = test_tree /\ AllTransformYes
    /\ result.ok /\ Len(visits) = 20

\* The closures of a test with one event: transform_and_event_on(f, x, event)
\* for the callback f, transform_yes for the other
OneEvent(f, x, event) ==
    cb = TestCallbacks((<<f, x>> :> transform_and_event_on(event)))

\* ------------------------------------------------------------------------
\* C12: on the tree of the tests, when f_down reports Jump at E only and
\* f_up always reports Continue, rewrite (and transform_down_up) invokes no
\* callback on C, B, D, A, which keep their data; E becomes
\* f_up(f_down(E)); F, G, H, I, J are visited and become f_up(f_down(..));
\* the result has changed = true and Continue.
\* ------------------------------------------------------------------------
C12_JumpOnE ==
    (Done /\ fn \in Combined /\ input = test_tree
          /\ OneEvent("f_down", name_of.e, Jump)) =>
        /\ result.ok
        /\ \A x \in {name_of.c, name_of.b, name_of.d, name_of.a} :
               ~Invoked("f_down", x) /\ ~Invoked("f_up", x)
        /\ \A x \in {name_of.e, name_of.f, name_of.g, name_of.h, name_of.i,
                     name_of.j} :
               Invoked("f_down", x) /\ Invoked("f_up", x)
        /\ result.data =
             Renamed(test_tree,
                     [x \in NamesOf(test_tree) |->
                         IF x \in {name_of.c, name_of.b, name_of.d, name_of.a}
                         THEN <<>> ELSE <<"f_up", "f_down">>])
        /\ result.transformed
        /\ result.tnr = Continue

\* rewrite returned from the test of f_down reporting Jump at E
C12_Witness ==
    /\ Done /\ fn = "rewrite" /\ input = test_tree
    /\ OneEvent("f_down", name_of.e, Jump)
    /\ Reported("f_down", name_of.e, Jump)
    /\ result.ok /\ Len(visits) = 12

\* ------------------------------------------------------------------------
\* C13: on the tree of the tests, when f_up reports Jump at A only (its
\* input is f_down(A)) and f_down always reports Continue, f_up is not
\* invoked on D, C and E, the ancestors of A below F, and is invoked on B, H,
\* G, F, I, J.  In the tree rewrite returns, of the nodes below F on the side
\* of E only A and B are wrapped in f_up; D, C and E are f_down(..) only.
\* ------------------------------------------------------------------------
C13_JumpOnA ==
    /\ (Done /\ fn \in {"visit"} \cup Combined /\ input = test_tree
             /\ (OneEvent("f_up", name_of.a, Jump)
                   \/ cb = Callbacks(NamesOf(test_tree),
                                     (<<"f_up", name_of.a>> :> Resp(Jump, FALSE, FALSE))))) =>
         /\ result.ok
         /\ \A x \in NamesOf(test_tree) : Invoked("f_down", x)
         /\ \A x \in {name_of.d, name_of.c, name_of.e} : ~Invoked("f_up", x)
         /\ \A x \in {name_of.a, name_of.b, name_of.h, name_of.g, name_of.f,
                      name_of.i, name_of.j} : Invoked("f_up", x)
    /\ (Done /\ fn \in Combined /\ input = test_tree
             /\ OneEvent("f_up", name_of.a, Jump)) =>
         /\ result.data =
              Renamed(test_tree,
                      [x \in NamesOf(test_tree) |->
                          IF x \in {name_of.d, name_of.c, name_of.e}
                          THEN <<"f_down">> ELSE <<"f_up", "f_down">>])
         /\ { x \in {name_of.e} \cup DescendantsOf(name_of.e) :
                  "f_up" \in { FindIn(<<result.data>>, x).data.wraps[k]
                               : k \in 1..Len(FindIn(<<result.data>>, x).data.wraps) } }
              = {name_of.a, name_of.b}
         /\ result.transformed
         /\ result.tnr = Continue

\* rewrite returned from the test of f_up reporting Jump at A
C13_Witness ==
    /\ Done /\ fn = "rewrite" /\ input = test_tree
    /\ OneEvent("f_up", name_of.a, Jump)
    /\ Reported("f_up", name_of.a, Jump)
    /\ result.ok /\ Len(visits) = 17

\* The nodes a log of invocations names, in order
NodesOf(log) == [k \in 1..Len(log.visits) |-> log.visits[k].node]

\* The callbacks c with Continue where they report Jump
JumpAsContinue(c) ==
    [f \in DOMAIN c |->
        [n \in DOMAIN c[f] |->
            IF c[f][n].tnr = Jump THEN [c[f][n] EXCEPT !.tnr = Continue]
            ELSE c[f][n]]]

\* The tree `node` without the descendants of the nodes in `leaves`
RECURSIVE Pruned(_, _)
Pruned(node, leaves) ==
    [node EXCEPT !.children =
        IF node.data.name \in leaves THEN <<>>
        ELSE [k \in 1..Len(node.children) |-> Pruned(node.children[k], leaves)]]

\* The nodes where the callback of apply reports Jump
JumpNodes == { n \in DOMAIN cb.f_down : cb.f_down[n].tnr = Jump /\ ~cb.f_down[n].fail }

\* ------------------------------------------------------------------------
\* C14: in apply, a Jump reported by the callback at a node X behaves as
\* Continue would if X had no children: the callback is not invoked on the
\* descendants of X, and the nodes the callback is invoked on and the signal
\* returned are those of the scan, with Continue in place of Jump, of the
\* tree without the descendants of X.  Jump behaves exactly as Continue only
\* at a node that has no children.
\* ------------------------------------------------------------------------
C14_JumpPrunesInApply ==
    (Done /\ fn = "apply") =>
        /\ \A x \in Nodes :
               Reported("f_down", x, Jump) =>
                   \A y \in DescendantsOf(x) : ~Invoked("f_down", y)
        /\ Only({ /\ NodesOf(result.log) = NodesOf(other.log)
                  /\ result.ok = other.ok
                  /\ result.ok => result.tnr = other.tnr
                  /\ ~result.ok => result.err = other.err
                  : other \in { apply(Pruned(input, JumpNodes),
                                      VisitorFn(JumpAsContinue(cb), "f_down"),
                                      EmptyLog) } })

\* The statement as given: the nodes the callback is invoked on and the
\* signal returned are the same with Continue in place of Jump, on the tree
\* as it is
C14_JumpLikeContinue ==
    (Done /\ fn = "apply") =>
        Only({ /\ NodesOf(result.log) = NodesOf(other.log)
               /\ result.ok = other.ok
               /\ result.ok => result.tnr = other.tnr
               : other \in { apply(input, VisitorFn(JumpAsContinue(cb), "f_down"),
                                   EmptyLog) } })

\* The callback of apply reported Jump at a node that has children and is
\* not the root, and was invoked on a node after it
C14_Witness ==
    /\ Done /\ fn = "apply" /\ result.ok
    /\ \E x \in Nodes :
         /\ Reported("f_down", x, Jump)
         /\ DescendantsOf(x) # {}
         /\ x # input.data.name
         /\ \E i \in Idx("f_down", x) : i < Len(visits)

\* The first node after the subtree of x in pre-order (the names are the
\* pre-order numbers)
After(x) == x + 1 + Cardinality(DescendantsOf(x))

\* ------------------------------------------------------------------------
\* C15: in apply, when the callback reports Jump at X it is not invoked on
\* any descendant of X, and the scan goes on with the node after the subtree
\* of X: the next invocation is on that node.  When nothing stops the scan,
\* the callback is invoked, once and in pre-order, on exactly the nodes that
\* are not descendants of a node where Jump was reported.
\* ------------------------------------------------------------------------
C15_JumpPrunesAndGoesOn ==
    (Done /\ fn = "apply") =>
        /\ \A x \in Nodes : \A i \in Idx("f_down", x) :
             (visits[i].tnr = Jump /\ ~visits[i].fail) =>
                 /\ \A y \in DescendantsOf(x) : ~Invoked("f_down", y)
                 /\ After(x) \in Nodes =>
                        /\ i < Len(visits)
                        /\ visits[i + 1].node = After(x)
                 /\ After(x) \notin Nodes => i = Len(visits)
        /\ (\A i \in 1..Len(visits) : visits[i].tnr # Stop /\ ~visits[i].fail) =>
             /\ result.ok
             /\ \A i, j \in 1..Len(visits) : i < j => visits[i].node < visits[j].node
             /\ { visits[i].node : i \in 1..Len(visits) }
                  = Nodes \ UNION { DescendantsOf(x)
                                    : x \in { y \in Nodes : Reported("f_down", y, Jump) } }

\* test_apply_f_down_jump_on_e: the callback was invoked on J, I, F, E, G, H
C15_Witness ==
    /\ Done /\ fn = "apply" /\ input = test_tree /\ result.ok
    /\ Reported("f_down", name_of.e, Jump)
    /\ NodesOf(result.log) = <<name_of.j, name_of.i, name_of.f, name_of.e,
                               name_of.g, name_of.h>>

AncestorsOf(x) == { a \in Nodes : x \in DescendantsOf(a) }

\* ------------------------------------------------------------------------
\* C16: if every ancestor of X, up to the root, has exactly one child, a
\* Jump reported by f_up at X suppresses f_up on every ancestor of X, the
\* root included; the traversal returns Jump.
\* ------------------------------------------------------------------------
C16_JumpUpTheChain ==
    (Done /\ fn \in {"visit"} \cup Combined \cup UpOnly) =>
        \A x \in Nodes :
            ( /\ Reported("f_up", x, Jump)
              /\ \A a \in AncestorsOf(x) : Len(ChildrenOf(a)) = 1 ) =>
                /\ \A a \in AncestorsOf(x) : ~Invoked("f_up", a)
                /\ \E i \in Idx("f_up", x) : i = Len(visits)
                /\ result.ok => result.tnr = Jump

\* transform_up on a chain of three nodes or more, f_up reported Jump at
\* the lowest: f_up was invoked on that node only
C16_Witness ==
    /\ Done /\ fn = "transform_up" /\ result.ok
    /\ \E x \in Nodes :
         /\ Reported("f_up", x, Jump)
         /\ Cardinality(AncestorsOf(x)) >= 2
         /\ \A a \in AncestorsOf(x) : Len(ChildrenOf(a)) = 1
         /\ Len(visits) = 1

\* The transformations the callbacks that ran applied to node x, outermost
\* first: f_down runs on a node before f_up
WrapsOf(x) ==
    (IF \E i \in Idx("f_up", x) : visits[i].changed THEN <<"f_up">> ELSE <<>>)
        \o (IF \E i \in Idx("f_down", x) : visits[i].changed THEN <<"f_down">> ELSE <<>>)

StopReported == \E i \in 1..Len(visits) : visits[i].tnr = Stop /\ ~visits[i].fail

\* ------------------------------------------------------------------------
\* C17: when a callback reports Stop during rewrite, transform_down_up,
\* transform_down or transform_up (and their _mut forms), the tree returned
\* is the tree given with, at every node, the data returned by the callbacks
\* that ran on it, the stopping one included: every ancestor is rebuilt
\* around its partly rewritten children, and a node on which a callback did
\* not run keeps the data it had.  So it is in the tests where f_down stops
\* at A and where f_up stops at E.
\* ------------------------------------------------------------------------
C17_PartialTreeAtStop ==
    /\ (Done /\ fn \in Rewriting /\ result.ok /\ StopReported) =>
         /\ result.data = Renamed(input, [x \in Nodes |-> WrapsOf(x)])
         /\ result.tnr = Stop
    /\ (Done /\ fn \in Combined /\ input = test_tree
             /\ OneEvent("f_down", name_of.a, Stop)) =>
         /\ result.ok
         /\ result.data =
              Renamed(test_tree,
                      [x \in NamesOf(test_tree) |->
                          CASE x = name_of.b -> <<"f_up", "f_down">>
                            [] x \in {name_of.h, name_of.g} -> <<>>
                            [] OTHER -> <<"f_down">>])
    /\ (Done /\ fn \in Combined /\ input = test_tree
             /\ OneEvent("f_up", name_of.e, Stop)) =>
         /\ result.ok
         /\ result.data =
              Renamed(test_tree,
                      [x \in NamesOf(test_tree) |->
                          CASE x \in {name_of.h, name_of.g} -> <<>>
                            [] x \in {name_of.f, name_of.i, name_of.j} -> <<"f_down">>
                            [] OTHER -> <<"f_up", "f_down">>])

\* f_up reported Stop at a node below the root after callbacks had changed
\* other nodes, and a sibling subtree was left as it was
C17_Witness ==
    /\ Done /\ fn = "rewrite" /\ input = test_tree /\ result.ok
    /\ OneEvent("f_up", name_of.e, Stop)
    /\ Reported("f_up", name_of.e, Stop)
    /\ FindIn(<<result.data>>, name_of.g) = FindIn(<<test_tree>>, name_of.g)
    /\ FindIn(<<result.data>>, name_of.a).data.wraps = <<"f_up", "f_down">>

\* ------------------------------------------------------------------------
\* C18: with f_down and f_up that always report Continue (each a function
\* of the node it is given), transform_down_up(f_down, f_up) returns the
\* tree that transform_down_mut(f_down) followed by transform_up_mut(f_up)
\* on its result returns, and its changed flag is the OR of the flags of the
\* two passes.
\* ------------------------------------------------------------------------
C18_DownUpIsDownThenUp ==
    (Done /\ fn = "transform_down_up" /\ AlwaysContinue) =>
        Only({ /\ down.ok
               /\ Only({ /\ up.ok
                         /\ result.ok
                         /\ result.data = up.data
                         /\ result.transformed = (down.transformed \/ up.transformed)
                         /\ result.tnr = up.tnr
                         : up \in { transform_up_mut(down.data,
                                                     RewriterFn(cb, "f_up"),
                                                     EmptyLog) } })
               : down \in { transform_down_mut(input, RewriterFn(cb, "f_down"),
                                               EmptyLog) } })

\* transform_down_up returned from a tree of three nodes or more where
\* f_down changed a node and f_up changed a node
C18_Witness ==
    /\ Done /\ fn = "transform_down_up" /\ AlwaysContinue /\ result.ok
    /\ Cardinality(Nodes) >= 3
    /\ \E i, j \in 1..Len(visits) :
         /\ visits[i].f = "f_down" /\ visits[i].changed
         /\ visits[j].f = "f_up" /\ visits[j].changed
         /\ visits[i].node # visits[j].node

\* ------------------------------------------------------------------------
\* C19: map_children of an Arc<T: DynTreeNode> whose children were all
\* returned with changed = false does not call with_new_arc_children and
\* returns the node itself, with changed = false and the signal aggregated
\* from the children (that of the last child the operation was invoked on).
\* In a traversal, a node is reconstructed only after a callback changed a
\* node below it.
\* ------------------------------------------------------------------------
C19_ArcKeptWhenNoChildChanged ==
    /\ (Done /\ fn = "map_children" /\ input.ty = ArcDynTreeNode
             /\ \A i \in 1..Len(visits) : ~visits[i].changed /\ ~visits[i].fail) =>
         /\ result.ok
         /\ rebuilds = <<>>
         /\ result.data = input
         /\ ~result.transformed
         /\ result.tnr = IF visits = <<>> THEN Continue ELSE visits[Len(visits)].tnr
    /\ (Done /\ fn \in Rewriting /\ input.ty = ArcDynTreeNode) =>
         \A k \in 1..Len(rebuilds) :
             \E i \in 1..rebuilds[k].after :
                 /\ visits[i].changed
                 /\ visits[i].node \in DescendantsOf(rebuilds[k].node)

\* map_children of an Arc node whose reconstruction would fail, with two
\* children or more: no child changed, the first reported Jump
C19_Witness ==
    /\ Done /\ fn = "map_children" /\ input.ty = ArcDynTreeNode
    /\ input.frail
    /\ Len(input.children) >= 2
    /\ Len(visits) = Len(input.children)
    /\ visits[1].tnr = Jump
    /\ \A i \in 1..Len(visits) : ~visits[i].changed /\ ~visits[i].fail
    /\ result.ok

\* Every entry point of the model
EntryPoints ==
    Visiting \cup Rewriting \cup {"map_children", "map_until_stop_and_collect"}

\* ------------------------------------------------------------------------
\* C20: Stop and Jump are successful outcomes.  When no callback and no
\* reconstruction fails, every entry point returns Ok: a signal, and for the
\* rewriting ones an envelope with data and the changed flag, also when a
\* callback reported Stop or Jump and when the signal returned is Stop or
\* Jump.  An Err is returned only if a callback or a reconstruction returned
\* it, and is that Err.
\* ------------------------------------------------------------------------
C20_StopAndJumpAreOk ==
    (Done /\ fn \in EntryPoints) =>
        /\ ( /\ \A i \in 1..Len(visits) : ~visits[i].fail
             /\ \A k \in 1..Len(rebuilds) : ~rebuilds[k].fail ) =>
               /\ result.ok
               /\ result.tnr \in TreeNodeRecursion
               /\ fn \in Visiting => DOMAIN result = {"ok", "tnr", "log"}
               /\ fn \notin Visiting =>
                      DOMAIN result = {"ok", "data", "transformed", "tnr", "log"}
        /\ ~result.ok =>
               \/ \E i \in 1..Len(visits) :
                      visits[i].fail /\ result.err = ErrOf(visits[i].f, visits[i].node)
               \/ \E k \in 1..Len(rebuilds) :
                      rebuilds[k].fail /\ result.err = ErrOf(RebuildOp, rebuilds[k].node)

\* A traversal whose callbacks reported a Jump and then a Stop returned Ok
\* with the signal Stop; the reconstructions on the way back succeeded
C20_Witness ==
    /\ Done /\ fn = "transform_down" /\ input.ty = ConcreteTreeNode
    /\ result.ok /\ result.tnr = Stop
    /\ Len(rebuilds) >= 1
    /\ \E i, j \in 1..Len(visits) :
         i < j /\ visits[i].tnr = Jump /\ visits[j].tnr = Stop

\* ------------------------------------------------------------------------
\* C21: try_transform_node_with(f, return_if_jump) on an envelope.  Signal
\* Continue: f is applied to the data, and the result has the data and the
\* signal f returned and changed = f's changed OR the envelope's (a failure
\* of f is the result).  Signal Jump: f is not applied, data and changed are
\* kept, the signal becomes return_if_jump.  Signal Stop: f is not applied,
\* the envelope is returned as it is.
\* ------------------------------------------------------------------------
C21_EnvelopeComposition ==
    (Done /\ fn = "try_transform_node_with") =>
        CASE input.self.tnr = Continue ->
               /\ Len(visits) = 1
               /\ result.ok = ~cb.f_down[1].fail
               /\ result.ok =>
                    /\ result.data =
                         IF cb.f_down[1].changed
                         THEN [input.self.data EXCEPT
                                   !.data = Wrap("f_down", input.self.data.data)]
                         ELSE input.self.data
                    /\ result.tnr = cb.f_down[1].tnr
                    /\ result.transformed =
                         (cb.f_down[1].changed \/ input.self.transformed)
          [] input.self.tnr = Jump ->
               /\ visits = <<>>
               /\ result.ok
               /\ result.data = input.self.data
               /\ result.transformed = input.self.transformed
               /\ result.tnr = input.return_if_jump
          [] input.self.tnr = Stop ->
               /\ visits = <<>>
               /\ result = input.self

\* An envelope with changed = true and Continue was given an f that reports
\* Jump without a change: the result is changed, with Jump
C21_Witness ==
    /\ Done /\ fn = "try_transform_node_with" /\ result.ok
    /\ input.self.tnr = Continue /\ input.self.transformed
    /\ input.return_if_jump = Continue
    /\ cb.f_down[1] = Resp(Jump, FALSE, FALSE)
    /\ result.transformed /\ result.tnr = Jump

\* ------------------------------------------------------------------------
\* C22: map_until_stop_and_collect invokes the operation on the elements
\* from left to right and returns the signal reported for the last element
\* it was invoked on (Continue for an empty sequence).  A Jump reported for
\* element i does not keep the operation from element i + 1, and leaves no
\* trace: the elements invoked, the data and the changed flag are those of
\* the run with Continue in place of Jump, and so is the signal unless the
\* last element invoked reported the Jump.
\* ------------------------------------------------------------------------
C22_LastSignalWins ==
    (Done /\ fn = "map_until_stop_and_collect") =>
        /\ Len(visits) <= Len(input)
        /\ \A i \in 1..Len(visits) : visits[i].node = input[i].data.name
        /\ result.ok =>
             result.tnr = IF visits = <<>> THEN Continue ELSE visits[Len(visits)].tnr
        /\ \A i \in 1..Len(visits) :
             (visits[i].tnr = Jump /\ ~visits[i].fail /\ i < Len(input)) =>
                 Len(visits) >= i + 1
        /\ Only({ /\ NodesOf(result.log) = NodesOf(other.log)
                  /\ result.ok = other.ok
                  /\ result.ok =>
                       /\ result.data = other.data
                       /\ result.transformed = other.transformed
                       /\ (visits = <<>> \/ visits[Len(visits)].tnr # Jump) =>
                              result.tnr = other.tnr
                  : other \in { map_until_stop_and_collect(
                                    input, RewriterFn(JumpAsContinue(cb), "f_down"),
                                    EmptyLog) } })

\* The operation reported Jump for the first of three elements and Continue
\* for the others: the signal returned is Continue
C22_Witness ==
    /\ Done /\ fn = "map_until_stop_and_collect" /\ result.ok
    /\ Len(input) >= 3 /\ Len(visits) = Len(input)
    /\ visits[1].tnr = Jump
    /\ \A i \in 2..Len(visits) : visits[i].tnr = Continue
    /\ result.tnr = Continue

\* ------------------------------------------------------------------------
\* Comparing a call with another call of the same entry point on the same
\* tree, with other callbacks
\* ------------------------------------------------------------------------
Rerun(c) ==
    CASE fn = "visit" -> visit(input, c, EmptyLog)
      [] fn = "apply" -> apply(input, VisitorFn(c, "f_down"), EmptyLog)
      [] fn = "rewrite" -> rewrite(input, c, EmptyLog)
      [] fn = "transform_down_up" ->
             transform_down_up(input, RewriterFn(c, "f_down"), RewriterFn(c, "f_up"),
                               EmptyLog)
      [] fn = "transform_down" ->
             transform_down(input, RewriterFn(c, "f_down"), EmptyLog)
      [] fn = "transform_down_mut" ->
             transform_down_mut(input, RewriterFn(c, "f_down"), EmptyLog)

\* The callbacks cb with f reporting tnr at x
With(f, x, tnr) == [cb EXCEPT ![f][x].tnr = tnr]

\* The invocations of a log on the nodes that are not in D, in order
OrderOutside(log, D) ==
    LET F[k \in 0..Len(log.visits)] ==
            IF k = 0 THEN <<>>
            ELSE IF log.visits[k].node \in D THEN F[k - 1]
            ELSE Append(F[k - 1], <<log.visits[k].f, log.visits[k].node>>)
    IN  F[Len(log.visits)]

\* The signal or the failure a call returned
Outcome(r) == IF r.ok THEN <<"Ok", r.tnr>> ELSE <<"Err", r.err>>

\* In the log, callback f was invoked on x and reported tnr
ReportedIn(log, f, x, tnr) ==
    \E i \in 1..Len(log.visits) :
        /\ log.visits[i].f = f /\ log.visits[i].node = x
        /\ log.visits[i].tnr = tnr /\ ~log.visits[i].fail

NoRebuildFailed(log) == \A k \in 1..Len(log.rebuilds) : ~log.rebuilds[k].fail

C24_JumpPrunesInTransformDown ==
    /\ (Done /\ fn \in DownOnly) =>
         /\ result.ok => result.tnr # Jump
         /\ \A x \in Nodes : \A i \in Idx("f_down", x) :
              (visits[i].tnr = Jump /\ ~visits[i].fail) =>
                  /\ \A y \in DescendantsOf(x) : ~Invoked("f_down", y)
                  /\ After(x) \in Nodes =>
                         \/ /\ i < Len(visits)
                            /\ visits[i + 1].node = After(x)
                         \/ /\ i = Len(visits) /\ ~result.ok
                            /\ \E k \in 1..Len(rebuilds) :
                                   /\ rebuilds[k].fail /\ rebuilds[k].after = i
                                   /\ rebuilds[k].node \in AncestorsOf(x)
                  /\ After(x) \notin Nodes => i = Len(visits)
                  /\ result.ok =>
                       /\ FindIn(<<result.data>>, x).children
                            = FindIn(<<input>>, x).children
                       /\ FindIn(<<result.data>>, x).data.wraps
                            = IF visits[i].changed THEN <<"f_down">> ELSE <<>>
                       /\ visits[i].changed => result.transformed
    /\ (Done /\ fn \in DownOnly /\ input = test_tree
             /\ OneEvent("f_down", name_of.e, Jump)) =>
         /\ result.ok
         /\ result.data =
              Renamed(test_tree,
                      [x \in NamesOf(test_tree) |->
                          IF x \in {name_of.c, name_of.b, name_of.d, name_of.a}
                          THEN <<>> ELSE <<"f_down">>])
         /\ result.transformed
         /\ result.tnr = Continue

\* test_transform_down_f_down_jump_on_e: f was invoked on J, I, F, E, G, H
C24_Witness ==
    /\ Done /\ fn = "transform_down_mut" /\ input = test_tree /\ result.ok
    /\ OneEvent("f_down", name_of.e, Jump)
    /\ NodesOf(result.log) = <<name_of.j, name_of.i, name_of.f, name_of.e,
                               name_of.g, name_of.h>>

\* The callbacks cb with the default f_down of TreeNodeRewriter, which
\* returns the node as it is with Continue
NoOpDown ==
    [cb EXCEPT !.f_down = [n \in DOMAIN cb.f_down |-> Unchanged]]

\* The invocations of callback f in a log, in order, with what they did
InvocationsOf(log, f) ==
    LET F[k \in 0..Len(log.visits)] ==
            IF k = 0 THEN <<>>
            ELSE IF log.visits[k].f = f THEN Append(F[k - 1], log.visits[k])
            ELSE F[k - 1]
    IN  F[Len(log.visits)]

\* What a rewriting call returned, but for the log
Returns(r) ==
    IF r.ok THEN <<"Ok", r.data, r.transformed, r.tnr>> ELSE <<"Err", r.err>>

\* ------------------------------------------------------------------------
\* C25: transform_up(f), transform_up_mut(f) and transform(f) do what
\* rewrite does with a rewriter whose f_down is the no-op and whose f_up is
\* f: f is invoked on the same nodes in the same order, and the tree, the
\* changed flag and the signal returned are the same (and so is a failure).
\* So a Jump of f skips f on the ancestors as in rewrite; in the test where
\* f reports Jump at A, f is not applied to D, C and E.
\* ------------------------------------------------------------------------
C25_TransformUpIsRewriteUp ==
    /\ (Done /\ fn \in UpOnly) =>
         Only({ /\ InvocationsOf(result.log, "f_up") = InvocationsOf(other.log, "f_up")
                /\ Returns(result) = Returns(other)
                : other \in { rewrite(input, NoOpDown, EmptyLog) } })
    /\ (Done /\ fn \in UpOnly /\ input = test_tree
             /\ OneEvent("f_up", name_of.a, Jump)) =>
         /\ result.ok
         /\ result.data =
              Renamed(test_tree,
                      [x \in NamesOf(test_tree) |->
                          IF x \in {name_of.d, name_of.c, name_of.e}
                          THEN <<>> ELSE <<"f_up">>])
         /\ result.transformed
         /\ result.tnr = Continue

\* transform_up_mut on the tree of the tests, f reported Jump at A: f was
\* invoked on A, B, H, G, F, I, J
C25_Witness ==
    /\ Done /\ fn = "transform_up_mut" /\ input = test_tree /\ result.ok
    /\ OneEvent("f_up", name_of.a, Jump)
    /\ { visits[i].node : i \in 1..Len(visits) }
         = {name_of.a, name_of.b, name_of.h, name_of.g, name_of.f, name_of.i,
            name_of.j}

\* The callbacks cb with the default f_up of TreeNodeVisitor, which reports
\* Continue
NoOpUp ==
    [cb EXCEPT !.f_up = [n \in DOMAIN cb.f_up |-> Unchanged]]

\* ------------------------------------------------------------------------
\* C26: apply(f) does what visit does with a visitor whose f_down is f and
\* whose f_up is the no-op that reports Continue: f is invoked on the same
\* nodes in the same order, and the signal returned (or the failure) is the
\* same, whatever f reports.
\* ------------------------------------------------------------------------
C26_ApplyIsVisitDown ==
    (Done /\ fn = "apply") =>
        Only({ /\ InvocationsOf(result.log, "f_down")
                    = InvocationsOf(other.log, "f_down")
               /\ Outcome(result) = Outcome(other)
               : other \in { visit(input, NoOpUp, EmptyLog) } })

\* apply on a node with two leaves: f reported Jump at the first and Stop
\* at the second
C26_Witness ==
    /\ Done /\ fn = "apply" /\ result.ok /\ result.tnr = Stop
    /\ \E i, j \in 1..Len(visits) :
         /\ i < j
         /\ visits[i].tnr = Jump
         /\ visits[j].tnr = Stop
    /\ Len(visits) = 3 /\ Cardinality(Nodes) = 3

\* The two calls returned the same: the signal or failure of a read-only
\* traversal, the tree, flag and signal or the failure of a rewriting one
SameReturn(r, o) ==
    IF fn \in Visiting THEN Outcome(r) = Outcome(o) ELSE Returns(r) = Returns(o)

\* All the invocations of a log, in order, as <<callback, node>>
OrderOf(log) == OrderOutside(log, {})

\* ------------------------------------------------------------------------
\* C27: in visit and rewrite (and transform_down_up), a Jump reported by
\* f_up at a node X whose parent has a later child is erased: the later
\* children are traversed, and when the subtree of the last of them ends
\* with Continue, f_up is invoked on the parent; all the callbacks of the
\* traversal run as in the run where f_up reports Continue at X, with the
\* same result.  With Continue everywhere else the final signal is Continue;
\* so it is in the test where f_up reports Jump at E.
\* ------------------------------------------------------------------------
C27_JumpUpErasedByLaterSibling ==
    /\ (Done /\ fn \in {"visit"} \cup Combined) =>
         \A p \in Nodes : \A k \in 1..(Len(ChildrenOf(p)) - 1) :
             Reported("f_up", ChildrenOf(p)[k], Jump) =>
                 /\ ( /\ Reported("f_up", LastChild(p), Continue)
                      /\ ~FindIn(<<input>>, p).frail ) => Invoked("f_up", p)
                 /\ Only({ /\ OrderOf(result.log) = OrderOf(other.log)
                           /\ SameReturn(result, other)
                           : other \in { Rerun(With("f_up", ChildrenOf(p)[k],
                                                    Continue)) } })
    /\ (Done /\ fn \in {"visit"} \cup Combined /\ input = test_tree
             /\ (OneEvent("f_up", name_of.e, Jump)
                   \/ cb = Callbacks(NamesOf(test_tree),
                                     (<<"f_up", name_of.e>> :> Resp(Jump, FALSE, FALSE))))) =>
         /\ result.ok
         /\ result.tnr = Continue
         /\ Len(visits) = 20
         /\ \A x \in NamesOf(test_tree) : Invoked("f_down", x) /\ Invoked("f_up", x)
         /\ fn \in Combined =>
              result.data = Renamed(test_tree,
                                    [x \in NamesOf(test_tree) |->
                                        IF OneEvent("f_up", name_of.e, Jump)
                                        THEN <<"f_up", "f_down">> ELSE <<>>])

\* test_visit_f_up_jump_on_e: f_up reported Jump at E, and was invoked on F
\* after G, the later child of F
C27_Witness ==
    /\ Done /\ fn = "visit" /\ input = test_tree /\ result.ok
    /\ Reported("f_up", name_of.e, Jump)
    /\ Reported("f_up", name_of.g, Continue)
    /\ \E i \in Idx("f_up", name_of.g) : (i + 1) \in Idx("f_up", name_of.f)

\* ------------------------------------------------------------------------
\* C28: in visit, rewrite, transform_down_up and transform_down, when f_down
\* reports Jump at a node without children, the callbacks invoked and their
\* order, the tree returned with its flag, and the signal or failure
\* returned are those of the run where f_down reports Continue at that
\* node.  So it is in the tests where f_down reports Jump at A: the twenty
\* callbacks of the run without events are invoked (ten by transform_down),
\* and the trees returned are those of the run without events.
\* ------------------------------------------------------------------------
C28_JumpOnLeafIsContinue ==
    /\ (Done /\ fn \in {"visit"} \cup Combined \cup DownOnly) =>
         \A x \in Nodes :
             (ChildrenOf(x) = <<>> /\ Reported("f_down", x, Jump)) =>
                 Only({ /\ OrderOf(result.log) = OrderOf(other.log)
                        /\ SameReturn(result, other)
                        : other \in { Rerun(With("f_down", x, Continue)) } })
    /\ (Done /\ fn \in {"visit"} \cup Combined \cup DownOnly /\ input = test_tree
             /\ (OneEvent("f_down", name_of.a, Jump)
                   \/ cb = Callbacks(NamesOf(test_tree),
                                     (<<"f_down", name_of.a>> :> Resp(Jump, FALSE, FALSE))))) =>
         /\ result.ok
         /\ result.tnr = Continue
         /\ \A y \in NamesOf(test_tree) :
                /\ Invoked("f_down", y)
                /\ fn \notin DownOnly => Invoked("f_up", y)
         /\ Len(visits) = IF fn \in DownOnly THEN 10 ELSE 20
         /\ (fn \in Combined /\ OneEvent("f_down", name_of.a, Jump)) =>
              result.data = Renamed(test_tree,
                                    [y \in NamesOf(test_tree) |-> <<"f_up", "f_down">>])
         /\ (fn \in DownOnly /\ OneEvent("f_down", name_of.a, Jump)) =>
              result.data = Renamed(test_tree,
                                    [y \in NamesOf(test_tree) |-> <<"f_down">>])

\* test_rewrite_f_down_jump_on_a: f_down reported Jump at A, a leaf, and
\* f_up was invoked on A next
C28_Witness ==
    /\ Done /\ fn = "rewrite" /\ input = test_tree /\ result.ok
    /\ OneEvent("f_down", name_of.a, Jump)
    /\ Reported("f_down", name_of.a, Jump)
    /\ \E i \in Idx("f_down", name_of.a) : (i + 1) \in Idx("f_up", name_of.a)

\* ------------------------------------------------------------------------
\* C29: every time map_children calls with_new_children or
\* with_new_arc_children on a node, it passes as many children as
\* take_children / arc_children gave for that node, and the child at each
\* position comes from the child taken at that position: the result of the
\* per-child operation on it, or the child itself when the operation was not
\* applied to it after a Stop.  This holds whatever the per-child operation
\* reported for each child (Continue, Jump or Stop).
\* ------------------------------------------------------------------------
C29_ChildrenKeepLengthAndOrder ==
    /\ (Done /\ fn \in Rewriting \cup {"map_children"}) =>
         \A k \in 1..Len(rebuilds) :
             /\ rebuilds[k].given = rebuilds[k].had
             /\ rebuilds[k].children = rebuilds[k].taken
             /\ rebuilds[k].taken = ChildrenOf(rebuilds[k].node)
    /\ (Done /\ fn = "map_children" /\ result.ok) =>
         /\ Len(result.data.children) = Len(input.children)
         /\ \A k \in 1..Len(input.children) :
                /\ result.data.children[k].data.name = input.children[k].data.name
                /\ ~Invoked("f_down", input.children[k].data.name) =>
                       result.data.children[k] = input.children[k]
         /\ (input.ty = ConcreteTreeNode /\ input.children # <<>>) =>
                Len(rebuilds) = 1

\* map_children on a node with two children reconstructed by
\* with_new_children: the closure reported Stop at the first child, and the
\* node was rebuilt with the two children
C29_Witness ==
    /\ Done /\ fn = "map_children" /\ input.ty = ConcreteTreeNode /\ result.ok
    /\ Len(input.children) = 2
    /\ Reported("f_down", input.children[1].data.name, Stop)
    /\ ~Invoked("f_down", input.children[2].data.name)
    /\ Len(rebuilds) = 1 /\ rebuilds[1].given = 2

\* ------------------------------------------------------------------------
\* C30: on every tree and with every signal or failure of the callbacks, a
\* call of visit or apply ends; at every moment of the call f_down has been
\* invoked at most once on each node and f_up at most once on each node,
\* and on nodes of the tree only, so that the invocations are at most twice
\* as many as the nodes (as many, for apply, which has one callback); and
\* what the call returns, with the invocations it made, is what visit or
\* apply returns.
\* ------------------------------------------------------------------------
C30_Bounded ==
    /\ (pc \in {"running", "done"} /\ fn \in Visiting) =>
          /\ \A i \in 1..Len(visits) :
                 /\ visits[i].node \in Nodes
                 /\ visits[i].f \in {"f_down", "f_up"}
                 /\ fn = "apply" => visits[i].f = "f_down"
          /\ \A x \in Nodes :
                 /\ Cardinality(Idx("f_down", x)) <= 1
                 /\ Cardinality(Idx("f_up", x)) <= 1
          /\ Len(visits) <= 2 * Cardinality(Nodes)
          /\ fn = "apply" => Len(visits) <= Cardinality(Nodes)
    /\ (Done /\ fn \in Visiting) => result = Rerun(cb)

C30_VisitAndApplyTerminate ==
    /\ []C30_Bounded
    /\ (pc = "running") ~> (pc = "done")

\* visit returned from a tree of three nodes having invoked the two
\* callbacks on each node, one of which reported Jump: the bound is reached
C30_Witness ==
    /\ Done /\ fn = "visit" /\ result.ok
    /\ Cardinality(Nodes) = 3
    /\ Len(visits) = 2 * Cardinality(Nodes)
    /\ \E i \in 1..Len(visits) : visits[i].tnr = Jump

\* ------------------------------------------------------------------------
\* C31: visit and rewrite follow the same control flow.  On the same tree
\* and with callbacks that report the same signals (and failures) at the
\* same nodes, visit and rewrite invoke f_down and f_up on the same nodes in
\* the same order, and visit returns the signal (or the failure) that
\* rewrite returns in its envelope.  rewrite also reconstructs nodes, which
\* visit does not: the comparison is with the runs of rewrite in which no
\* reconstruction fails.
\* ------------------------------------------------------------------------
C31_VisitAndRewriteAgree ==
    /\ (Done /\ fn = "visit") =>
         Only({ /\ OrderOf(result.log) = OrderOf(other.log)
                /\ Outcome(result) = Outcome(other)
                : other \in { rewrite(input, cb, EmptyLog) } })
    /\ (Done /\ fn = "rewrite" /\ NoRebuildFailed(result.log)) =>
         Only({ /\ OrderOf(result.log) = OrderOf(other.log)
                /\ Outcome(result) = Outcome(other)
                : other \in { visit(input, cb, EmptyLog) } })

\* rewrite returned Stop from a tree reconstructed by with_new_children,
\* after an f_up that reported Jump
C31_Witness ==
    /\ Done /\ fn = "rewrite" /\ input.ty = ConcreteTreeNode
    /\ result.ok /\ result.tnr = Stop
    /\ Len(rebuilds) >= 1
    /\ \E i, j \in 1..Len(visits) :
         /\ i < j
         /\ visits[i].f = "f_up" /\ visits[i].tnr = Jump
         /\ visits[j].tnr = Stop

\* ------------------------------------------------------------------------
\* C32: in visit, rewrite and transform_down_up the invocations are well
\* nested, whatever the callbacks report: f_up is invoked on a node only
\* after f_down was invoked on that node in the same traversal, and every
\* invocation between the two is on a descendant of the node.
\* ------------------------------------------------------------------------
C32_WellNested ==
    (Done /\ fn \in {"visit"} \cup Combined) =>
        \A j \in 1..Len(visits) :
            visits[j].f = "f_up" =>
                \E i \in 1..(j - 1) :
                    /\ visits[i].f = "f_down"
                    /\ visits[i].node = visits[j].node
                    /\ \A k \in (i + 1)..(j - 1) :
                           visits[k].node \in DescendantsOf(visits[j].node)

\* transform_down_up invoked f_up on a node with children after an f_up
\* below it reported Jump and a later child erased it
C32_Witness ==
    /\ Done /\ fn = "transform_down_up" /\ result.ok
    /\ \E p \in Nodes :
         /\ Len(ChildrenOf(p)) = 2
         /\ Reported("f_up", ChildrenOf(p)[1], Jump)
         /\ Invoked("f_up", p)
         /\ \E i \in Idx("f_down", p), j \in Idx("f_up", p) : j = i + 5

\* ------------------------------------------------------------------------
\* C33: apply, transform_down and transform_down_mut never return the
\* signal Jump: whatever the callback reports at each node, the signal they
\* return is Continue or Stop.
\* ------------------------------------------------------------------------
C33_NoJumpFromTopDown ==
    (Done /\ fn \in {"apply"} \cup DownOnly /\ result.ok) =>
        result.tnr \in {Continue, Stop}

\* apply returned Continue although the last invocation of its callback,
\* on the last node of the tree, reported Jump
C33_Witness ==
    /\ Done /\ fn = "apply" /\ result.ok /\ result.tnr = Continue
    /\ Len(visits) = 3
    /\ visits[3].tnr = Jump /\ visits[3].node = 3
    /\ visits[2].tnr = Jump

\* ------------------------------------------------------------------------
\* C34: try_transform_node(f) on an envelope.  Signal Continue or Jump: f is
\* applied to the data, once, and the result has the data and the signal f
\* returned and changed = f's changed OR the envelope's (a failure of f is
\* the result).  Signal Stop: f is not applied and the envelope is returned
\* as it is.
\* ------------------------------------------------------------------------
C34_TryTransformNode ==
    (Done /\ fn = "try_transform_node") =>
        IF input.self.tnr \in {Continue, Jump}
        THEN /\ Len(visits) = 1
             /\ visits[1].node = input.self.data.data.name
             /\ result.ok = ~cb.f_down[1].fail
             /\ ~result.ok => result.err = ErrOf("f_down", 1)
             /\ result.ok =>
                  /\ result.data =
                       IF cb.f_down[1].changed
                       THEN [input.self.data EXCEPT
                                 !.data = Wrap("f_down", input.self.data.data)]
                       ELSE input.self.data
                  /\ result.tnr = cb.f_down[1].tnr
                  /\ result.transformed =
                       (cb.f_down[1].changed \/ input.self.transformed)
        ELSE /\ visits = <<>>
             /\ result = input.self

\* An envelope with changed = true and Jump was given an f that reports
\* Continue without a change: f was applied, the result is changed, with
\* Continue
C34_Witness ==
    /\ Done /\ fn = "try_transform_node" /\ result.ok
    /\ input.self.tnr = Jump /\ input.self.transformed
    /\ cb.f_down[1] = Resp(Continue, FALSE, FALSE)
    /\ Len(visits) = 1
    /\ result.transformed /\ result.tnr = Continue

\* ------------------------------------------------------------------------
\* C39: map_children of a ConcreteTreeNode and of an Arc<DynTreeNode>, when
\* it returns an envelope, returns the changed flag and the signal that the
\* sibling aggregator produces over the children of the node with the same
\* operation; on a node without children it invokes neither the operation
\* nor the reconstruction and returns the node, not changed, with Continue.
\* ------------------------------------------------------------------------
C39_MapChildrenIsTheAggregator ==
    (Done /\ fn = "map_children" /\ input.ty \in {ConcreteTreeNode, ArcDynTreeNode})
        => /\ result.ok =>
                \A agg \in {map_until_stop_and_collect(input.children,
                                                       RewriterFn(cb, "f_down"),
                                                       EmptyLog)} :
                    /\ agg.ok
                    /\ result.transformed = agg.transformed
                    /\ result.tnr = agg.tnr
                    /\ visits = agg.log.visits
           /\ input.children = <<>> =>
                /\ result.ok
                /\ visits = <<>>
                /\ rebuilds = <<>>
                /\ result.data = input
                /\ ~result.transformed
                /\ result.tnr = Continue

\* map_children returned an envelope with the flag set and the signal Stop
\* from a ConcreteTreeNode with two children, the first of which reported
\* Stop
C39_Witness ==
    /\ Done
    /\ fn = "map_children"
    /\ input.ty = ConcreteTreeNode
    /\ result.ok /\ result.transformed /\ result.tnr = Stop
    /\ Len(input.children) = 2
    /\ Len(visits) = 1

\* ------------------------------------------------------------------------
\* C38: the macro map_until_stop_and_collect! behaves like the iterator
\* form on its pairs: the transformations are invoked from left to right,
\* each on its own expression and only while the running signal is Continue
\* or Jump; after a Stop the remaining expressions are passed through as
\* they are; changed is the or of the flags of the invoked transformations
\* and the signal is that of the last one invoked; a failure is returned at
\* once; and the iterator form with one closure that does at each item what
\* the pair's transformation does returns the same.
\* ------------------------------------------------------------------------
\* The single closure that does at each item what the transformation of its
\* pair does
Merged(items, c) ==
    [f \in {"f_down", "f_up"} |->
        [n \in DOMAIN c[f] |->
            IF \E i \in 1..Len(items) : items[i].data.name = n
            THEN c[TransformationOf(
                       CHOOSE i \in 1..Len(items) : items[i].data.name = n)][n]
            ELSE c[f][n]]]

\* What the invocations of a log did, without the name of the closure
Did(log) ==
    [k \in 1..Len(log.visits) |->
        <<log.visits[k].node, log.visits[k].tnr, log.visits[k].changed,
          log.visits[k].fail>>]

C38_MacroIsTheIterator ==
    (Done /\ fn = "map_until_stop_and_collect!") =>
        /\ \A k \in 1..Len(visits) :
               /\ visits[k].f = TransformationOf(ElementOf(visits[k].node))
               /\ k > 1 => /\ ElementOf(visits[k - 1].node) < ElementOf(visits[k].node)
                           /\ visits[k - 1].tnr \in {Continue, Jump}
                           /\ ~visits[k - 1].fail
               /\ visits[k].fail => (k = Len(visits) /\ ~result.ok
                                       /\ result.err = ErrOf(visits[k].f, visits[k].node))
        /\ result.ok =>
               /\ Len(result.data) = Len(input)
               /\ result.transformed = (\E k \in 1..Len(visits) : visits[k].changed)
               /\ result.tnr = IF visits = <<>> THEN Continue
                               ELSE visits[Len(visits)].tnr
               /\ \A j \in 1..Len(input) :
                      IF Invoked(TransformationOf(j), input[j].data.name)
                      THEN (result.data[j] # input[j])
                               = \E i \in Idx(TransformationOf(j), input[j].data.name) :
                                     visits[i].changed
                      ELSE /\ result.data[j] = input[j]
                           /\ \E i \in 1..Len(visits) :
                                  /\ visits[i].tnr = Stop
                                  /\ ElementOf(visits[i].node) < j
        /\ \A it \in {map_until_stop_and_collect(
                          input, RewriterFn(Merged(input, cb), "f_down"), EmptyLog)} :
               /\ it.ok = result.ok
               /\ Did(it.log) = Did(result.log)
               /\ it.ok => /\ it.tnr = result.tnr
                           /\ it.transformed = result.transformed
                           /\ \A j \in 1..Len(input) :
                                  (it.data[j] = input[j]) = (result.data[j] = input[j])
               /\ ~it.ok => it.err.at = result.err.at

\* The macro was given three pairs; the first transformation reported Jump,
\* the second changed its expression and reported Stop, and the third was
\* not invoked
C38_Witness ==
    /\ Done /\ fn = "map_until_stop_and_collect!" /\ result.ok
    /\ Len(input) = 3
    /\ Len(visits) = 2
    /\ visits[1].tnr = Jump
    /\ visits[2].tnr = Stop /\ visits[2].changed
    /\ result.data[3] = input[3]

\* ------------------------------------------------------------------------
\* C37: LogicalPlan::map_children applies the transform to the inputs in
\* order.  When the transform fails on an input, that failure is returned,
\* no later input is transformed and with_new_inputs is not called.  When
\* every transformed input equals the original one, the original plan is
\* returned and with_new_inputs is not called.  Otherwise with_new_inputs is
\* called once, with all the transformed inputs, as many as the original
\* inputs and in their order, and what it returns is returned.
\* ------------------------------------------------------------------------
\* The input k as the transform returned it
TransformedInput(k) ==
    IF visits[k].changed
    THEN [input.children[k] EXCEPT !.data = Wrap("f_down", input.children[k].data)]
    ELSE input.children[k]

C37_LogicalPlanMapChildren ==
    (Done /\ fn = "LogicalPlan::map_children") =>
        /\ Len(visits) <= Len(input.children)
        /\ \A k \in 1..Len(visits) :
               /\ visits[k].node = input.children[k].data.name
               /\ visits[k].fail => k = Len(visits)
        /\ IF \E k \in 1..Len(visits) : visits[k].fail
           THEN /\ ~result.ok
                /\ result.err = ErrOf("f_down", visits[Len(visits)].node)
                /\ rebuilds = <<>>
           ELSE /\ Len(visits) = Len(input.children)
                /\ IF \A k \in 1..Len(visits) : TransformedInput(k) = input.children[k]
                   THEN /\ result.ok
                        /\ result.data = input
                        /\ rebuilds = <<>>
                   ELSE /\ Len(rebuilds) = 1
                        /\ rebuilds[1].node = input.data.name
                        /\ rebuilds[1].given = Len(input.children)
                        /\ rebuilds[1].children = rebuilds[1].taken
                        /\ rebuilds[1].after = Len(visits)
                        /\ IF input.frail
                           THEN /\ ~result.ok
                                /\ result.err = ErrOf("with_new_inputs", input.data.name)
                           ELSE /\ result.ok
                                /\ result.data.data = input.data
                                /\ result.data.children
                                       = [k \in 1..Len(input.children) |->
                                             TransformedInput(k)]

\* A plan with two inputs, of which the transform changed the second only,
\* was rebuilt
C37_Witness ==
    /\ Done /\ fn = "LogicalPlan::map_children" /\ result.ok
    /\ Len(input.children) = 2
    /\ Len(rebuilds) = 1
    /\ ~visits[1].changed /\ visits[2].changed
    /\ result.data.children[1] = input.children[1]
    /\ result.data.children[2] # input.children[2]

\* ------------------------------------------------------------------------
\* C35: the child expressions that Expr::map_children gives to a transform
\* that does not fail are the child expressions that Expr::visit_children
\* gives to a callback that always reports Continue: the same expressions,
\* each once, in the same order.
\* ------------------------------------------------------------------------
\* The child expressions visit_children gives to a callback that always
\* reports Continue, in order
VisitedChildren(expr) ==
    NodesOf(visit_children(expr, VisitorFn(Callbacks(ColumnsOf(expr), <<>>), "f_down"),
                           EmptyLog).log)

C35_SameChildren ==
    ( /\ Done /\ fn = "Expr::map_children"
      /\ \A k \in 1..Len(visits) : ~visits[k].fail )
        => NodesOf(result.log) = VisitedChildren(input)

\* ------------------------------------------------------------------------
\* C36: Expr::map_children with a transform that returns every child as it
\* is returns an expression equal to the one it was called on.
\* ------------------------------------------------------------------------
C36_PureReconstruction ==
    ( /\ Done /\ fn = "Expr::map_children"
      /\ \A n \in DOMAIN cb.f_down : cb.f_down[n] = Unchanged )
        => /\ result.ok
           /\ result.data = input

====
